---- MODULE Spec2Model ----
(***************************************************************************)
(* State-machine model of the WaniKani -> Anki pipeline                    *)
(* (src/wanikani_scripts): the Prefect flow wanikani_anki_pipeline with    *)
(* its five tasks, the paginated fetch with its per-page retry loop, the   *)
(* snapshot cache, and the record normaliser parse_subjects.               *)
(*                                                                         *)
(* Spec follows a flow run, each of the load and generate task bodies as   *)
(* one step.  SpecParse follows parse_subjects and save_data, SpecLoad     *)
(* the load task statement by statement, SpecGen the generate task         *)
(* category by category, SpecBold and SpecRoundTrip the text functions     *)
(* of the Deck Builder and the list fields through the store.              *)
(* SpecCheck follows the cache check statement by statement, SpecFetch a   *)
(* call of fetch_all_subjects on its own, SpecCached a run that follows a  *)
(* run of the same day, and SpecPaths the places where the artifacts are   *)
(* written and looked for.                                                 *)
(*                                                                         *)
(* Time is counted in ticks, TicksPerDay ticks to a day.  A snapshot file  *)
(* is named by the date (day number) in its file name.  A raw record       *)
(* served by the API is the pair <<page, index>>.                          *)
(***************************************************************************)
EXTENDS Integers, Sequences, FiniteSets, TLC

\* ------------------------------------------------------------------ bounds
MaxAgeDays == 1
TicksPerDay == 2
MaxPages == 2
MaxSubjects == 3
MaxStrLen == 3
MaxReadings == 1
MaxItems == 2
MaxItemLen == 1
MaxRetriesArg == 3
MaxLoadRuns == 2
MaxPathRuns == 3

\* ------------------------------------------------------- program constants
max_retries == 3
retry_delay == 5
ExtractTaskRetries == 3
TransformTaskRetries == 2
LoadTaskRetries == 3
GenerateTaskRetries == 2
CheckTaskRetries == 0

VARIABLES
    \* flow arguments
    use_cached, force_refresh, max_cache_age_days,
    \* environment: credentials as read by the flow, API page chain, files
    api_token, database_url, api_pages, api_empty, files, files0,
    \* flow control
    pc, stage_state, calls, attempt, flow_error, result,
    \* locals of the flow
    is_fresh, cached_file, json_filepath,
    \* locals of fetch_all_subjects, and what the call produced
    url, retry_count, subjects, slept, last_resp, page_reqs,
    fetch_outcome, returned, auth_failed, req_after_auth,
    \* cache_data
    cache_outcome, cache_path,
    \* downstream artifacts
    transform_input, excel, table, deck_files,
    \* Prefect's result cache of transform_data_task: the inputs for which a
    \* Completed result no older than 24 hours is held
    transform_cache,
    \* the database views, and the locals of load_to_database_task
    views, view_idx, row_count, load_error, views0, table0,
    \* the deck artifacts on disk, and the locals of generate_all_decks
    apkg, g_idx, decks, deck_map, gen_error,
    \* parse_subjects (normaliser), checked on its own
    p_input, p_idx, p_rows, p_report, p_state,
    \* save_data: the format asked for, the destination file, the outcome
    format, dest, dest0, save_outcome,
    \* the Deck Builder's text functions, checked on their own: the input
    \* list, the primary reading, and the results of the steps applied
    txt_in, txt_primary, txt_a, txt_b, txt_c, txt_pc,
    \* locals of check_cache_freshness_task, followed statement by statement
    cache_files, latest_file, check_error,
    \* fetch_all_subjects called on its own: its parameters, its locals, the
    \* number of requests issued, and how the call ended
    f_token, f_max_retries, f_pc, f_url, f_retry_count, f_success,
    f_subjects, f_requests, f_outcome,
    \* where the artifacts are written and looked for: the working directory
    \* of the run, the files under each directory's data/, the run number,
    \* the paths written and handed on, and what the load stage read
    cwd, disk, run_no, path_pc, check_dir, json_written, json_handed,
    excel_written, excel_handed, load_read

\* Variables of the parts checked on their own, which a flow run of Spec
\* leaves alone.
checkLocals == <<cache_files, latest_file, check_error>>

fetchCall == <<f_token, f_max_retries, f_pc, f_url, f_retry_count, f_success,
               f_subjects, f_requests, f_outcome>>

pathVars == <<cwd, disk, run_no, path_pc, check_dir, json_written, json_handed,
              excel_written, excel_handed, load_read>>

soloVars == <<checkLocals, fetchCall, pathVars>>

flowCore == <<use_cached, force_refresh, max_cache_age_days, api_token,
              database_url, api_pages, api_empty, files, files0, pc,
              stage_state, calls, attempt, flow_error, result, is_fresh,
              cached_file, json_filepath, url, retry_count, subjects, slept,
              last_resp, page_reqs, fetch_outcome, returned, auth_failed,
              req_after_auth, cache_outcome, cache_path, transform_input,
              transform_cache, excel, table, deck_files, views, view_idx,
              row_count,
              load_error, views0, table0, apkg, g_idx, decks, deck_map,
              gen_error>>

flowVarsButText == <<flowCore, soloVars>>

flowVars == <<flowVarsButText, txt_in, txt_primary, txt_a, txt_b, txt_c, txt_pc>>

saveVars == <<format, dest, dest0, save_outcome>>

parseVars == <<p_input, p_idx, p_rows, p_report, p_state, saveVars>>

vars == <<flowVars, parseVars>>

\* ------------------------------------------------------------ basic values
Stages == {"check", "fetch", "transform", "load", "generate"}

NoPath == -1
NoUrl == 0

\* datetime.now(): the run's clock reading, in ticks.
Now == (MaxAgeDays + 1) * TicksPerDay - 1

\* datetime.now().strftime("%Y-%m-%d"): the date part of the clock.
Today == Now \div TicksPerDay

\* The snapshot names wanikani_subjects_cache_<date>.json the model holds.
SnapshotNames == {Today - 1, Today}

NoFile == [exists |-> FALSE, mtime |-> 0, content |-> <<>>]

\* A snapshot left by an earlier run: one record of an older fetch.
OldContent == << <<0, 1>> >>

\* ------------------------------------------------------------ the API chain
\* Records served on page p: <<p,1>> .. <<p,n>>, n alternating 2, 1, 2, ...
PageLen(p) == IF api_empty THEN 0 ELSE 1 + (p % 2)

PageData(p) == [i \in 1..PageLen(p) |-> <<p, i>>]

\* data.get('pages', {}).get('next_url')
NextUrl(u) == IF u < api_pages THEN u + 1 ELSE NoUrl


\* ------------------------------------------------- check_cache_freshness_task
\* glob.glob(DATA_DIR / 'wanikani_subjects_cache*.json')
CacheFiles(fs) == {n \in SnapshotNames : fs[n].exists}

\* max(cache_files, key=st_mtime): every file no other file is newer than
\* (glob order decides between files of equal modification time).
LatestFiles(fs) ==
    {n \in CacheFiles(fs) : \A m \in CacheFiles(fs) : fs[m].mtime <= fs[n].mtime}

\* (datetime.now() - datetime.fromtimestamp(st_mtime)).days: timedelta keeps
\* days as the floor, so a modification time in the future gives -1.
FileAgeDays(mtime) == (Now - mtime) \div TicksPerDay

IsFreshAge_le(days, max_age) == days <= max_age

\* is_fresh = file_age.days < max_age_days
IsFreshAge(days, max_age) == days < max_age

\* The task's return value (is_fresh, latest_file if is_fresh else None),
\* for the file `latest` that max() picked (NoPath: no cache file found).
check_cache_freshness_task(fs, max_age, latest) ==
    IF latest = NoPath
    THEN [is_fresh |-> FALSE, filepath |-> NoPath]
    ELSE LET fresh == IsFreshAge(FileAgeDays(fs[latest].mtime), max_age)
         IN  [is_fresh |-> fresh, filepath |-> IF fresh THEN latest ELSE NoPath]

\* ------------------------------------------------------------------ cache_data
cache_data_unvalidated(subs, fs) ==
    [raised |-> FALSE,
     files |-> [fs EXCEPT ![Today] = [exists |-> TRUE, mtime |-> Now, content |-> subs]],
     path |-> Today]

\* Raises ValueError on an empty list; otherwise opens
\* data/<base>_<today>.json for writing (truncating it) and dumps the list.
cache_data(subs, fs) ==
    IF subs = <<>>
    THEN [raised |-> TRUE, files |-> fs, path |-> NoPath]
    ELSE [raised |-> FALSE,
          files |-> [fs EXCEPT ![Today] = [exists |-> TRUE, mtime |-> Now, content |-> subs]],
          path |-> Today]

\* ------------------------------------------------------------ frame groups
argVars == <<use_cached, force_refresh, max_cache_age_days>>
envVars == <<api_pages, api_empty, files0>>
credVars == <<api_token, database_url>>
checkOut == <<is_fresh, cached_file>>
fetchLocals == <<url, retry_count, subjects, slept, last_resp, page_reqs>>
fetchOut == <<fetch_outcome, returned>>
authHist == <<auth_failed, req_after_auth>>
cacheOut == <<cache_outcome, cache_path>>
loadVars == <<views, view_idx, row_count, load_error, views0, table0>>
genVars == <<apkg, g_idx, decks, deck_map, gen_error>>
artifacts == <<transform_cache, excel, table, deck_files, loadVars, genVars>>
textVars == <<txt_in, txt_primary, txt_a, txt_b, txt_c, txt_pc>>
fixedVars == <<argVars, envVars, parseVars, textVars, soloVars>>

\* ------------------------------------------------------- Prefect task runs
TaskRetries(s) ==
    CASE s = "check" -> CheckTaskRetries
      [] s = "fetch" -> ExtractTaskRetries
      [] s = "transform" -> TransformTaskRetries
      [] s = "load" -> LoadTaskRetries
      [] s = "generate" -> GenerateTaskRetries

BodyPc(s) ==
    CASE s = "check" -> "check"
      [] s = "fetch" -> "fetching"
      [] s = "transform" -> "transform"
      [] s = "load" -> "load"
      [] s = "generate" -> "generate"

\* The flow calls task s: its first run starts.
TaskStarts(s) ==
    /\ stage_state' = [stage_state EXCEPT ![s] = "running"]
    /\ calls' = [calls EXCEPT ![s] = @ + 1]
    /\ attempt' = 1
    /\ pc' = BodyPc(s)

\* The running body of task s raised.
TaskFails(s) ==
    /\ stage_state' = [stage_state EXCEPT ![s] = "failed"]
    /\ pc' = "task_failed"
    /\ UNCHANGED <<calls, attempt>>

\* The body of task s returned; the flow goes on at p.
TaskReturns(s, p) ==
    /\ stage_state' = [stage_state EXCEPT ![s] = "ok"]
    /\ pc' = p
    /\ UNCHANGED <<calls, attempt>>

\* Locals of a fresh call of fetch_all_subjects (and of the task body).
FetchCallStarts ==
    /\ url' = 1
    /\ retry_count' = 0
    /\ subjects' = <<>>
    /\ slept' = 0
    /\ last_resp' = "none"
    /\ page_reqs' = 0
    /\ fetch_outcome' = "running"
    /\ returned' = <<>>
    /\ cache_outcome' = "none"
    /\ cache_path' = NoPath

FetchLocalsDropped ==
    /\ url' = NoUrl
    /\ retry_count' = 0
    /\ subjects' = <<>>
    /\ slept' = 0
    /\ last_resp' = "none"
    /\ page_reqs' = 0

\* ----------------------------------------------------- wanikani_anki_pipeline
CredentialsMissing_token_only(tok, db) == tok = "missing"

\* if not api_token: raise ...; if not database_url: raise ...
CredentialsMissing(tok, db) == tok = "missing" \/ db = "missing"

\* Lines 306-319: the flow reads both credentials and raises ValueError
\* when one is missing.
ValidateCredentials(tok, db) ==
    /\ pc = "validate"
    /\ api_token' = tok
    /\ database_url' = db
    /\ IF CredentialsMissing(tok, db)
       THEN pc' = "config_error" /\ flow_error' = "config"
       ELSE pc' = "source" /\ UNCHANGED flow_error
    /\ UNCHANGED <<stage_state, calls, attempt, result, files, checkOut,
                   json_filepath, fetchLocals, fetchOut, authHist, cacheOut,
                   transform_input, artifacts, fixedVars>>

ConsultsCache_ignoring_force(uc, fr) == uc

\* if use_cached and not force_refresh:
ConsultsCache(uc, fr) == uc /\ ~fr

\* Lines 321-337: json_filepath = None, then the cache check task is called
\* or not.
DetermineSource ==
    /\ pc = "source"
    /\ json_filepath' = NoPath
    /\ IF ConsultsCache(use_cached, force_refresh)
       THEN TaskStarts("check")
       ELSE pc' = "gate" /\ UNCHANGED <<stage_state, calls, attempt>>
    /\ UNCHANGED <<credVars, flow_error, result, files, checkOut, fetchLocals,
                   fetchOut, authHist, cacheOut, transform_input, artifacts,
                   fixedVars>>

\* The body of check_cache_freshness_task and the flow's lines 326-332:
\* json_filepath = cached_file when is_fresh and cached_file.  No statement
\* of the body raises here; CheckGlob .. CheckExcept follow the body
\* statement by statement, its handler (lines 111-113) included.
CheckCache ==
    /\ pc = "check"
    /\ \E latest \in (IF CacheFiles(files) = {} THEN {NoPath} ELSE LatestFiles(files)) :
          LET r == check_cache_freshness_task(files, max_cache_age_days, latest)
          IN  /\ is_fresh' = r.is_fresh
              /\ cached_file' = r.filepath
              /\ json_filepath' =
                    IF r.is_fresh /\ r.filepath # NoPath THEN r.filepath ELSE NoPath
    /\ TaskReturns("check", "gate")
    /\ UNCHANGED <<credVars, flow_error, result, files, fetchLocals, fetchOut,
                   authHist, cacheOut, transform_input, artifacts, fixedVars>>

ExtractGate_never_fetch ==
    /\ pc = "gate"
    /\ pc' = "call_transform"
    /\ UNCHANGED <<stage_state, calls, attempt, fetchLocals, fetchOut, cacheOut>>
    /\ UNCHANGED <<credVars, flow_error, result, files, checkOut, json_filepath,
                   authHist, transform_input, artifacts, fixedVars>>

\* Lines 339-341: if not json_filepath: extract_wanikani_data_task(api_token)
ExtractGate ==
    /\ pc = "gate"
    /\ IF json_filepath = NoPath
       THEN TaskStarts("fetch") /\ FetchCallStarts
       ELSE /\ pc' = "call_transform"
            /\ UNCHANGED <<stage_state, calls, attempt, fetchLocals, fetchOut, cacheOut>>
    /\ UNCHANGED <<credVars, flow_error, result, files, checkOut, json_filepath,
                   authHist, transform_input, artifacts, fixedVars>>

\* --------------------------------------------------------- fetch_all_subjects
flowFrame == <<credVars, flow_error, result, files, checkOut, json_filepath,
               transform_input, artifacts, fixedVars>>

Extend_replacing(subs, data) == data

\* subjects.extend(data['data'])
Extend(subs, data) == subs \o data

MayRequest_once_more(rc) == rc <= max_retries

\* while retry_count < max_retries and not success:
MayRequest(rc) == rc < max_retries

\* time.sleep(retry_delay) under `if retry_count < max_retries` (rc: the
\* count after its increment); 0: no sleep.
NapBeforeRetry(rc) == IF rc < max_retries THEN retry_delay ELSE 0

\* requests.get(url, ...) is issued: a request made after an authentication
\* failure of this flow run is remembered.
RequestIssued == req_after_auth' = (req_after_auth \/ auth_failed)

\* Status 200: the page's records are appended, the cursor advances; with no
\* next_url the outer loop ends and the list is returned (line 92), else the
\* next page starts with retry_count = 0 (line 38).
Request200 ==
    /\ pc = "fetching"
    /\ MayRequest(retry_count)
    /\ RequestIssued
    /\ subjects' = Extend(subjects, PageData(url))
    /\ url' = NextUrl(url)
    /\ last_resp' = "200"
    /\ slept' = 0
    /\ IF NextUrl(url) = NoUrl
       THEN /\ fetch_outcome' = "returned"
            /\ returned' = subjects'
            /\ page_reqs' = page_reqs + 1
            /\ pc' = "caching"
            /\ UNCHANGED retry_count
       ELSE /\ retry_count' = 0
            /\ page_reqs' = 0
            /\ UNCHANGED <<pc, fetchOut>>
    /\ UNCHANGED <<stage_state, calls, attempt, auth_failed, cacheOut, flowFrame>>

\* A response that counts against the page's retries and sleeps `nap`.
RetryableFailure(resp, nap) ==
    /\ pc = "fetching"
    /\ MayRequest(retry_count)
    /\ RequestIssued
    /\ retry_count' = retry_count + 1
    /\ page_reqs' = page_reqs + 1
    /\ last_resp' = resp
    /\ slept' = nap
    /\ UNCHANGED <<url, subjects, fetchOut, pc, stage_state, calls, attempt,
                   auth_failed, cacheOut, flowFrame>>

Request429_as_other_status == RetryableFailure("429", NapBeforeRetry(retry_count + 1))

\* Status 429: sleep retry_delay * 2, retry_count += 1 (lines 57-60).
Request429 == RetryableFailure("429", retry_delay * 2)

\* Any other status (lines 61-66).
RequestOtherStatus == RetryableFailure("other", NapBeforeRetry(retry_count + 1))

\* requests.exceptions.Timeout (lines 68-73).
RequestTimeout == RetryableFailure("timeout", NapBeforeRetry(retry_count + 1))

\* requests.exceptions.ConnectionError (lines 75-80).
RequestConnectionError ==
    RetryableFailure("connection", NapBeforeRetry(retry_count + 1))

\* The call raises out of both loops with outcome `why`; the task body ends.
FetchRaises(why, resp) ==
    /\ fetch_outcome' = why
    /\ last_resp' = resp
    /\ slept' = 0
    /\ TaskFails("fetch")
    /\ UNCHANGED <<url, retry_count, subjects, returned, cacheOut, flowFrame>>

\* Status 401: raise ValueError("Authentication failed") (lines 55-56),
\* re-raised by the outer handler (lines 94-96).
Request401 ==
    /\ pc = "fetching"
    /\ MayRequest(retry_count)
    /\ RequestIssued
    /\ page_reqs' = page_reqs + 1
    /\ auth_failed' = TRUE
    /\ FetchRaises("auth_error", "401")

\* response.json() raises JSONDecodeError (lines 82-84).
RequestBadJson ==
    /\ pc = "fetching"
    /\ MayRequest(retry_count)
    /\ RequestIssued
    /\ page_reqs' = page_reqs + 1
    /\ UNCHANGED auth_failed
    /\ FetchRaises("json_error", "badjson")

\* Lines 86-89: the retry loop ended without success.
FetchGiveUp ==
    /\ pc = "fetching"
    /\ ~MayRequest(retry_count)
    /\ UNCHANGED <<page_reqs, authHist>>
    /\ FetchRaises("exhausted", last_resp)

\* ------------------------------------------------- extract_wanikani_data_task
\* Line 139-140: cache_path = cache_data(subjects); return cache_path.  In the
\* flow, json_filepath receives the task's result (line 341).
CacheData ==
    /\ pc = "caching"
    /\ LET r == cache_data(returned, files)
       IN  IF r.raised
           THEN /\ cache_outcome' = "ValueError"
                /\ TaskFails("fetch")
                /\ UNCHANGED <<cache_path, files, json_filepath, fetchLocals>>
           ELSE /\ cache_outcome' = "written"
                /\ cache_path' = r.path
                /\ files' = r.files
                /\ json_filepath' = r.path
                /\ TaskReturns("fetch", "call_transform")
                /\ FetchLocalsDropped
    /\ UNCHANGED <<credVars, flow_error, result, checkOut, fetchOut, authHist,
                   transform_input, artifacts, fixedVars>>

\* ----------------------------------------------------------- later stages
\* Line 345: transform_data_task(json_filepath)
\* The task is declared with cache_key_fn=task_input_hash and
\* cache_expiration=timedelta(hours=24) (lines 143-149): the key is a hash of
\* the one argument, the path string.  When a result is held for that key
\* the task run ends Cached with the held result and the body does not run.
CacheKey(json_path) == json_path

CallTransform ==
    /\ pc = "call_transform"
    /\ transform_input' = json_filepath
    /\ IF CacheKey(json_filepath) \in transform_cache
       THEN /\ calls' = [calls EXCEPT !["transform"] = @ + 1]
            /\ attempt' = 1
            /\ stage_state' = [stage_state EXCEPT !["transform"] = "ok"]
            /\ pc' = "call_load"
       ELSE TaskStarts("transform")
    /\ UNCHANGED <<credVars, flow_error, result, files, checkOut, json_filepath,
                   fetchLocals, fetchOut, authHist, cacheOut, artifacts, fixedVars>>

\* load_subjects_from_file finds the file, and neither parse_subjects nor
\* save_data is handed an empty list.
Transformable(path, fs) ==
    /\ path \in SnapshotNames
    /\ fs[path].exists
    /\ fs[path].content # <<>>

\* The body of transform_data_task: read the snapshot, normalise, write the
\* tabular files.  io_ok = FALSE: a read or write raised.
TransformTask(io_ok) ==
    /\ pc = "transform"
    /\ IF io_ok /\ Transformable(transform_input, files)
       THEN /\ excel' = [exists |-> TRUE, source |-> transform_input,
                         records |-> files[transform_input].content]
            /\ transform_cache' = transform_cache \cup {CacheKey(transform_input)}
            /\ TaskReturns("transform", "call_load")
       ELSE /\ TaskFails("transform")
            /\ UNCHANGED <<excel, transform_cache>>
    /\ UNCHANGED <<credVars, flow_error, result, files, checkOut, json_filepath,
                   fetchLocals, fetchOut, authHist, cacheOut, transform_input,
                   table, deck_files, loadVars, genVars, fixedVars>>

\* The three views of wanikani_views.views, in list order.
ViewNames == <<"wanikani_radicals", "wanikani_kanji", "wanikani_vocab">>

AllViews == {ViewNames[i] : i \in 1..Len(ViewNames)}

\* Line 349: load_to_database_task(excel_path, database_url)
CallLoad ==
    /\ pc = "call_load"
    /\ TaskStarts("load")
    /\ views0' = views
    /\ table0' = table
    /\ view_idx' = 0
    /\ row_count' = 0
    /\ load_error' = "none"
    /\ UNCHANGED <<credVars, flow_error, result, files, checkOut, json_filepath,
                   fetchLocals, fetchOut, authHist, cacheOut, transform_input,
                   transform_cache, excel, table, deck_files, views, genVars,
                   fixedVars>>

\* What a step of the load task leaves alone besides its own variables.
loadFrame == <<credVars, flow_error, result, files, checkOut, json_filepath,
               fetchLocals, fetchOut, authHist, cacheOut, transform_input,
               transform_cache, excel, deck_files, views0, table0, genVars,
               fixedVars>>

\* Line 207: create_database_engine(database_url) opens a connection and
\* runs SELECT 1 (c-load lines 28-32); db_ok = FALSE: that raised.
LoadConnect(db_ok) ==
    /\ pc = "load"
    /\ row_count' = 0
    /\ IF db_ok
       THEN /\ pc' = "load_drop"
            /\ view_idx' = 1
            /\ load_error' = "none"
            /\ UNCHANGED <<stage_state, calls, attempt>>
       ELSE /\ load_error' = "connect"
            /\ TaskFails("load")
            /\ UNCHANGED view_idx
    /\ UNCHANGED <<views, table, loadFrame>>

DropView_uncommitted(db_ok) ==
    /\ pc = "load_drop"
    /\ view_idx \in 1..Len(ViewNames)
    /\ IF db_ok
       THEN /\ view_idx' = view_idx + 1
            /\ pc' = IF view_idx = Len(ViewNames) THEN "load_excel" ELSE "load_drop"
            /\ UNCHANGED <<views, stage_state, calls, attempt, load_error>>
       ELSE /\ load_error' = "drop"
            /\ TaskFails("load")
            /\ UNCHANGED <<views, view_idx>>
    /\ UNCHANGED <<table, row_count, loadFrame>>

\* Line 211, manage_views(engine, views, action='drop'): one turn of its
\* loop, DROP VIEW IF EXISTS <name> and commit (c-load lines 66-74); after
\* the last view the task goes on to load_excel_to_database.
DropView(db_ok) ==
    /\ pc = "load_drop"
    /\ view_idx \in 1..Len(ViewNames)
    /\ IF db_ok
       THEN /\ views' = views \ {ViewNames[view_idx]}
            /\ view_idx' = view_idx + 1
            /\ pc' = IF view_idx = Len(ViewNames) THEN "load_excel" ELSE "load_drop"
            /\ UNCHANGED <<stage_state, calls, attempt, load_error>>
       ELSE /\ load_error' = "drop"
            /\ TaskFails("load")
            /\ UNCHANGED <<views, view_idx>>
    /\ UNCHANGED <<table, row_count, loadFrame>>

load_excel_to_database_append(file, tbl, read_ok, db_ok) ==
    IF ~file.exists
    THEN [outcome |-> "file_not_found", table |-> tbl, rows |-> 0]
    ELSE IF ~read_ok
    THEN [outcome |-> "read", table |-> tbl, rows |-> 0]
    ELSE IF file.records = <<>>
    THEN [outcome |-> "empty", table |-> tbl, rows |-> 0]
    ELSE IF ~db_ok
    THEN [outcome |-> "replace", table |-> tbl, rows |-> 0]
    ELSE [outcome |-> "loaded", table |-> tbl \o file.records,
          rows |-> Len(file.records)]

load_excel_to_database_once(file, tbl, read_ok, db_ok) ==
    IF ~file.exists
    THEN [outcome |-> "file_not_found", table |-> tbl, rows |-> 0]
    ELSE IF ~read_ok
    THEN [outcome |-> "read", table |-> tbl, rows |-> 0]
    ELSE IF file.records = <<>>
    THEN [outcome |-> "empty", table |-> tbl, rows |-> 0]
    ELSE IF ~db_ok
    THEN [outcome |-> "replace", table |-> tbl, rows |-> 0]
    ELSE [outcome |-> "loaded", table |-> IF tbl = <<>> THEN file.records ELSE tbl,
          rows |-> Len(file.records)]

\* load_excel_to_database (c-load lines 113-145) on the source `file` and
\* the table contents tbl: FileNotFoundError, a read error, EmptyDataError,
\* or df.to_sql(if_exists='replace') in one transaction, which either
\* replaces the table or raises and leaves it.
load_excel_to_database(file, tbl, read_ok, db_ok) ==
    IF ~file.exists
    THEN [outcome |-> "file_not_found", table |-> tbl, rows |-> 0]
    ELSE IF ~read_ok
    THEN [outcome |-> "read", table |-> tbl, rows |-> 0]
    ELSE IF file.records = <<>>
    THEN [outcome |-> "empty", table |-> tbl, rows |-> 0]
    ELSE IF ~db_ok
    THEN [outcome |-> "replace", table |-> tbl, rows |-> 0]
    ELSE [outcome |-> "loaded", table |-> file.records, rows |-> Len(file.records)]

\* Line 214: row_count = load_excel_to_database(excel_path, engine)
LoadExcel(read_ok, db_ok) ==
    /\ pc = "load_excel"
    /\ LET r == load_excel_to_database(excel, table, read_ok, db_ok)
       IN  /\ table' = r.table
           /\ row_count' = r.rows
           /\ IF r.outcome = "loaded"
              THEN /\ pc' = "load_create"
                   /\ view_idx' = 1
                   /\ UNCHANGED <<stage_state, calls, attempt, load_error>>
              ELSE /\ load_error' = r.outcome
                   /\ TaskFails("load")
                   /\ UNCHANGED view_idx
    /\ UNCHANGED <<views, loadFrame>>

\* Line 218, manage_views(engine, views, action='create'): one turn of its
\* loop, the view's CREATE VIEW statement and commit (c-load lines 75-78);
\* after the last view the task returns row_count (line 220).
CreateView(db_ok) ==
    /\ pc = "load_create"
    /\ view_idx \in 1..Len(ViewNames)
    /\ IF db_ok
       THEN /\ views' = views \cup {ViewNames[view_idx]}
            /\ view_idx' = view_idx + 1
            /\ UNCHANGED load_error
            /\ IF view_idx = Len(ViewNames)
               THEN TaskReturns("load", "call_generate")
               ELSE UNCHANGED <<pc, stage_state, calls, attempt>>
       ELSE /\ load_error' = "create"
            /\ TaskFails("load")
            /\ UNCHANGED <<views, view_idx>>
    /\ UNCHANGED <<table, row_count, loadFrame>>

\* Line 354: generate_anki_decks_task(database_url)
CallGenerate ==
    /\ pc = "call_generate"
    /\ TaskStarts("generate")
    /\ UNCHANGED <<credVars, flow_error, result, files, checkOut, json_filepath,
                   fetchLocals, fetchOut, authHist, cacheOut, transform_input,
                   artifacts, fixedVars>>

\* The body of load_to_database_task as one step of the flow: the table is
\* replaced by the rows of the tabular file and the views are rebuilt.
\* db_ok = FALSE: an operation raised (LoadConnect .. CreateView follow the
\* body statement by statement, with what a failure leaves behind).
LoadTask(db_ok) ==
    /\ pc = "load"
    /\ IF db_ok
       THEN /\ table' = excel.records
            /\ row_count' = Len(excel.records)
            /\ views' = AllViews
            /\ TaskReturns("load", "call_generate")
       ELSE /\ TaskFails("load")
            /\ UNCHANGED <<table, row_count, views>>
    /\ UNCHANGED <<view_idx, load_error, loadFrame>>

\* ---------------------------------------------------------- generate_all_decks
\* The deck categories in the order generate_all_decks builds them, and the
\* artifact of each; the fourth is the combined bundle.
Categories == <<"radical", "kanji", "vocabulary", "complete">>

DeckFile ==
    <<"WaniKani_Radical_Deck.apkg", "WaniKani_Kanji_Deck.apkg",
      "WaniKani_Vocabulary_Deck.apkg", "WaniKani_Complete_Deck.apkg">>

AllDeckFiles == {DeckFile[i] : i \in 1..Len(DeckFile)}

\* The map generate_all_decks returns: deck category -> artifact written.
DeckMap == {<<Categories[i], DeckFile[i]>> : i \in 1..Len(Categories)}

\* An artifact that does not exist; written_in is the attempt of the
\* generate task that wrote the file (0: no write in this run).
NoApkg == [exists |-> FALSE, written_in |-> 0, decks |-> <<>>]

\* The type tag ('object') of a raw record, by its position on its page.
ObjectOf(r) ==
    CASE r[2] = 1 -> "radical"
      [] r[2] = 2 -> "kanji"
      [] OTHER -> "vocabulary"

\* The rows view number i projects from the table: where object = <tag>.
ViewRows(i, tbl) ==
    LET OfCategory(r) == ObjectOf(r) = Categories[i]
    IN  SelectSeq(tbl, OfCategory)

\* Lines 241-249: create_database_engine_for_deck(database_url), then
\* generate_all_decks starts with an empty map (line 441).
GenConnect(db_ok) ==
    /\ pc = "generate"
    /\ decks' = <<>>
    /\ deck_map' = {}
    /\ IF db_ok
       THEN /\ pc' = "gen_build"
            /\ g_idx' = 1
            /\ gen_error' = "none"
            /\ UNCHANGED <<stage_state, calls, attempt>>
       ELSE /\ gen_error' = "connect"
            /\ g_idx' = 0
            /\ TaskFails("generate")
    /\ UNCHANGED <<apkg, credVars, flow_error, result, files, checkOut,
                   json_filepath, fetchLocals, fetchOut, authHist, cacheOut,
                   transform_input, transform_cache, excel, table, deck_files,
                   loadVars, fixedVars>>

genFrame == <<credVars, flow_error, result, files, checkOut, json_filepath,
              fetchLocals, fetchOut, authHist, cacheOut, transform_input,
              transform_cache, excel, table, loadVars, fixedVars>>

BuildDeck_emit_on_error(how) ==
    /\ pc = "gen_build"
    /\ g_idx \in 1..3
    /\ LET outcome == IF ViewNames[g_idx] \in views THEN how ELSE "query"
           deck == [category |-> Categories[g_idx], built_in |-> attempt,
                    notes |-> IF outcome = "ok" THEN ViewRows(g_idx, table) ELSE <<>>]
           f == DeckFile[g_idx]
       IN  /\ apkg' = [apkg EXCEPT ![f] =
                          [exists |-> TRUE, written_in |-> attempt, decks |-> <<deck>>]]
           /\ IF outcome = "ok"
              THEN /\ decks' = Append(decks, deck)
                   /\ deck_map' = deck_map \cup {<<Categories[g_idx], f>>}
                   /\ g_idx' = g_idx + 1
                   /\ pc' = IF g_idx = 3 THEN "gen_bundle" ELSE "gen_build"
                   /\ UNCHANGED <<stage_state, calls, attempt, gen_error>>
              ELSE /\ gen_error' = outcome
                   /\ TaskFails("generate")
                   /\ UNCHANGED <<decks, deck_map, g_idx>>
    /\ UNCHANGED <<deck_files, genFrame>>

\* One category of generate_all_decks (lines 443-450, 452-459, 461-468):
\* fetch_data_from_view, create_<category>_deck, save_deck, then the map
\* entry.  how: "ok", or where it raised: the view query ("query"), the row
\* transform ("transform") or save_deck ("write").  A view that does not
\* exist makes the query raise.  The deck object is new in every call
\* (built_in).
BuildDeck(how) ==
    /\ pc = "gen_build"
    /\ g_idx \in 1..3
    /\ LET outcome == IF ViewNames[g_idx] \in views THEN how ELSE "query"
           deck == [category |-> Categories[g_idx], built_in |-> attempt,
                    notes |-> ViewRows(g_idx, table)]
           f == DeckFile[g_idx]
       IN  IF outcome = "ok"
           THEN /\ decks' = Append(decks, deck)
                /\ apkg' = [apkg EXCEPT ![f] =
                               [exists |-> TRUE, written_in |-> attempt,
                                decks |-> <<deck>>]]
                /\ deck_map' = deck_map \cup {<<Categories[g_idx], f>>}
                /\ g_idx' = g_idx + 1
                /\ pc' = IF g_idx = 3 THEN "gen_bundle" ELSE "gen_build"
                /\ UNCHANGED <<stage_state, calls, attempt, gen_error>>
           ELSE /\ gen_error' = outcome
                /\ TaskFails("generate")
                /\ UNCHANGED <<apkg, decks, deck_map, g_idx>>
    /\ UNCHANGED <<deck_files, genFrame>>

Bundle_without_last(ds) == SubSeq(ds, 1, Len(ds) - 1)

\* package.decks = [radical_deck, kanji_deck, vocab_deck] (line 473)
Bundle(ds) == ds

\* Lines 470-483: the combined bundle is written, its map entry added and
\* the map returned; the task returns it and the flow binds it to
\* deck_files (flow line 354).
BundleDecks(how) ==
    /\ pc = "gen_bundle"
    /\ LET f == DeckFile[4]
       IN  IF how = "ok"
           THEN /\ apkg' = [apkg EXCEPT ![f] =
                               [exists |-> TRUE, written_in |-> attempt,
                                decks |-> Bundle(decks)]]
                /\ deck_map' = deck_map \cup {<<Categories[4], f>>}
                /\ deck_files' = deck_map'
                /\ g_idx' = g_idx + 1
                /\ UNCHANGED gen_error
                /\ TaskReturns("generate", "return")
           ELSE /\ gen_error' = how
                /\ TaskFails("generate")
                /\ UNCHANGED <<apkg, deck_map, deck_files, g_idx>>
    /\ UNCHANGED <<decks, genFrame>>

\* The body of generate_anki_decks_task as one step of the flow: the map
\* generate_all_decks returns.  ok = FALSE: a query or a write raised
\* (GenConnect, BuildDeck and BundleDecks follow the body category by
\* category).
GenerateTask(ok) ==
    /\ pc = "generate"
    /\ IF ok
       THEN /\ deck_files' = DeckMap
            /\ TaskReturns("generate", "return")
       ELSE /\ TaskFails("generate")
            /\ UNCHANGED deck_files
    /\ UNCHANGED <<genVars, genFrame>>

\* Line 365: return deck_files
FlowReturn ==
    /\ pc = "return"
    /\ result' = deck_files
    /\ pc' = "done"
    /\ UNCHANGED <<stage_state, calls, attempt, credVars, flow_error, files,
                   checkOut, json_filepath, fetchLocals, fetchOut, authHist,
                   cacheOut, transform_input, artifacts, fixedVars>>

\* ------------------------------------------------ Prefect: a task run failed
MayRetry(s, att) == att <= TaskRetries(s)

\* @task(retries=n): the task's body is run again (attempt att + 1) while
\* att <= n; a retried fetch starts fetch_all_subjects from its first line.
RetryTask(s) ==
    /\ pc = "task_failed"
    /\ stage_state[s] = "failed"
    /\ MayRetry(s, attempt)
    /\ attempt' = attempt + 1
    /\ stage_state' = [stage_state EXCEPT ![s] = "running"]
    /\ pc' = BodyPc(s)
    /\ IF s = "fetch"
       THEN FetchCallStarts
       ELSE UNCHANGED <<fetchLocals, fetchOut, cacheOut>>
    /\ UNCHANGED <<calls, credVars, flow_error, result, files, checkOut,
                   json_filepath, authHist, transform_input, artifacts, fixedVars>>

PropagateFailure_swallowed(s) ==
    /\ pc = "task_failed"
    /\ stage_state[s] = "failed"
    /\ ~MayRetry(s, attempt)
    /\ pc' = CASE s = "fetch" -> "call_transform"
               [] s = "transform" -> "call_load"
               [] s = "load" -> "call_generate"
               [] OTHER -> "return"
    /\ UNCHANGED <<flow_error, stage_state, calls, attempt, credVars, result,
                   files, checkOut, json_filepath, fetchLocals, fetchOut,
                   authHist, cacheOut, transform_input, artifacts, fixedVars>>

\* The retries are used up: the task call raises in the flow, which has no
\* handler, so the flow run ends with that error.
PropagateFailure(s) ==
    /\ pc = "task_failed"
    /\ stage_state[s] = "failed"
    /\ ~MayRetry(s, attempt)
    /\ pc' = "failed"
    /\ flow_error' = s
    /\ UNCHANGED <<stage_state, calls, attempt, credVars, result, files,
                   checkOut, json_filepath, fetchLocals, fetchOut, authHist,
                   cacheOut, transform_input, artifacts, fixedVars>>

\* --------------------------------------------------------------- the flow run
\* The snapshot files a run can find in the data directory: each name absent
\* or left by an earlier run with some modification time.
InitialFiles ==
    [SnapshotNames ->
        {NoFile} \cup [exists : {TRUE}, mtime : 0..(Now + 1), content : {OldContent}]]

\* The destination file of save_data when it does not exist.
NoTable == [exists |-> FALSE, format |-> "none", rows |-> <<>>]

InitExcel == [exists |-> TRUE, source |-> Today - 1, records |-> OldContent]

\* check_cache_freshness_task not followed statement by statement.
CheckIdle ==
    /\ cache_files = {}
    /\ latest_file = NoPath
    /\ check_error = "none"

\* fetch_all_subjects not called on its own.
FetchCallIdle ==
    /\ f_token = "present"
    /\ f_max_retries = max_retries
    /\ f_pc = "f_idle"
    /\ f_url = NoUrl
    /\ f_retry_count = 0
    /\ f_success = FALSE
    /\ f_subjects = <<>>
    /\ f_requests = 0
    /\ f_outcome = "none"

\* ------------------------------------------------------- paths of artifacts
\* The directories a run can be started from.  config.py lines 13-16:
\* WANIKANI_SCRIPTS_DIR is the directory of the scripts, whatever the
\* working directory of the process is.
WANIKANI_SCRIPTS_DIR == "src/wanikani_scripts"

WorkingDirs == {WANIKANI_SCRIPTS_DIR, ".", "src"}

\* A path is the directory that holds data/ together with the file name in
\* data/.  A relative path 'data/<name>' names the file under the working
\* directory of the process that opens it.
RelativeData(wd, name) == <<wd, name>>

\* DATA_DIR / name (config.py line 15 and lines 103-115)
DATA_DIR(name) == <<WANIKANI_SCRIPTS_DIR, name>>

\* The snapshot of the day and the tabular file.
CACHE_FILE == "wanikani_subjects_cache.json"

EXCEL_OUTPUT == "wanikani_subjects.xlsx"

DataFiles == {CACHE_FILE, EXCEL_OUTPUT}

NoDataPath == <<"none", "none">>

\* The content of a file is the number of the run whose fetch it comes
\* from; Absent: the file does not exist.
Absent == 0

\* No run started.
PathIdle ==
    /\ cwd = WANIKANI_SCRIPTS_DIR
    /\ disk = [f \in WorkingDirs \X DataFiles |-> Absent]
    /\ run_no = 0
    /\ path_pc = "p_off"
    /\ check_dir = "none"
    /\ json_written = NoDataPath
    /\ json_handed = NoDataPath
    /\ excel_written = NoDataPath
    /\ excel_handed = NoDataPath
    /\ load_read = Absent

SoloIdle ==
    /\ CheckIdle
    /\ FetchCallIdle
    /\ PathIdle

\* The text functions not called.
TextIdle ==
    /\ txt_in = <<>>
    /\ txt_primary = <<>>
    /\ txt_a = <<>>
    /\ txt_b = <<>>
    /\ txt_c = <<>>
    /\ txt_pc = "idle"

\* No artifact written, generate_all_decks not called.
GenIdle ==
    /\ apkg = [f \in AllDeckFiles |-> NoApkg]
    /\ g_idx = 0
    /\ decks = <<>>
    /\ deck_map = {}
    /\ gen_error = "none"

\* The database as an earlier complete run left it, and the load task's
\* locals before the task is called.
LoadIdle ==
    /\ views = AllViews
    /\ view_idx = 0
    /\ row_count = 0
    /\ load_error = "none"
    /\ views0 = AllViews
    /\ table0 = OldContent

ParseIdle ==
    /\ p_input = <<>>
    /\ p_idx = 0
    /\ p_rows = <<>>
    /\ p_report = <<0, 0>>
    /\ p_state = "idle"
    /\ format = "none"
    /\ dest = NoTable
    /\ dest0 = NoTable
    /\ save_outcome = "none"

Init ==
    /\ use_cached \in BOOLEAN
    /\ force_refresh \in BOOLEAN
    /\ max_cache_age_days \in 0..MaxAgeDays
    /\ api_pages \in 1..MaxPages
    /\ api_empty \in BOOLEAN
    /\ files \in InitialFiles
    /\ files0 = files
    /\ api_token = "unread"
    /\ database_url = "unread"
    /\ pc = "validate"
    /\ stage_state = [s \in Stages |-> "idle"]
    /\ calls = [s \in Stages |-> 0]
    /\ attempt = 0
    /\ flow_error = "none"
    /\ result = {}
    /\ is_fresh = FALSE
    /\ cached_file = NoPath
    /\ json_filepath = NoPath
    /\ url = NoUrl
    /\ retry_count = 0
    /\ subjects = <<>>
    /\ slept = 0
    /\ last_resp = "none"
    /\ page_reqs = 0
    /\ fetch_outcome = "none"
    /\ returned = <<>>
    /\ auth_failed = FALSE
    /\ req_after_auth = FALSE
    /\ cache_outcome = "none"
    /\ cache_path = NoPath
    /\ transform_input = NoPath
    /\ excel = InitExcel
    /\ table = OldContent
    /\ deck_files = {}
    /\ transform_cache = {}
    /\ LoadIdle
    /\ GenIdle
    /\ ParseIdle
    /\ TextIdle
    /\ SoloIdle

Next ==
    \/ \E tok \in {"present", "missing"}, db \in {"present", "missing"} :
          ValidateCredentials(tok, db)
    \/ DetermineSource
    \/ CheckCache
    \/ ExtractGate
    \/ Request200
    \/ Request401
    \/ Request429
    \/ RequestOtherStatus
    \/ RequestTimeout
    \/ RequestConnectionError
    \/ RequestBadJson
    \/ FetchGiveUp
    \/ CacheData
    \/ CallTransform
    \/ \E io_ok \in BOOLEAN : TransformTask(io_ok)
    \/ CallLoad
    \/ \E db_ok \in BOOLEAN : LoadTask(db_ok)
    \/ CallGenerate
    \/ \E ok \in BOOLEAN : GenerateTask(ok)
    \/ FlowReturn
    \/ \E s \in Stages : RetryTask(s)
    \/ \E s \in Stages : PropagateFailure(s)

Spec == Init /\ [][Next]_vars

\* ------------------------------------------- a run after a run of the same day
\* The ticks of day d that are not in the future.
TicksOfDay(d) == {t \in (d * TicksPerDay)..(d * TicksPerDay + TicksPerDay - 1) : t <= Now}

\* The state an earlier complete run leaves: it fetched at tick m of day d,
\* cache_data wrote the snapshot named after d, the transform task wrote the
\* tabular file from it and the load task put its rows in the table.  The
\* result of that transform task run is held under the key of the snapshot
\* path, unless it has expired (24 hours are TicksPerDay ticks; a run a full
\* day of ticks ago may be on either side of the limit) or was never stored.
InitCached ==
    /\ use_cached \in BOOLEAN
    /\ force_refresh \in BOOLEAN
    /\ max_cache_age_days \in 0..MaxAgeDays
    /\ api_pages \in 1..MaxPages
    /\ api_empty \in BOOLEAN
    /\ \E d \in SnapshotNames :
          \E m \in TicksOfDay(d) :
             /\ files = [n \in SnapshotNames |->
                            IF n = d
                            THEN [exists |-> TRUE, mtime |-> m, content |-> OldContent]
                            ELSE NoFile]
             /\ excel = [exists |-> TRUE, source |-> d, records |-> OldContent]
             /\ transform_cache \in
                   IF Now - m <= TicksPerDay THEN {{CacheKey(d)}, {}} ELSE {{}}
    /\ files0 = files
    /\ api_token = "unread"
    /\ database_url = "unread"
    /\ pc = "validate"
    /\ stage_state = [s \in Stages |-> "idle"]
    /\ calls = [s \in Stages |-> 0]
    /\ attempt = 0
    /\ flow_error = "none"
    /\ result = {}
    /\ is_fresh = FALSE
    /\ cached_file = NoPath
    /\ json_filepath = NoPath
    /\ url = NoUrl
    /\ retry_count = 0
    /\ subjects = <<>>
    /\ slept = 0
    /\ last_resp = "none"
    /\ page_reqs = 0
    /\ fetch_outcome = "none"
    /\ returned = <<>>
    /\ auth_failed = FALSE
    /\ req_after_auth = FALSE
    /\ cache_outcome = "none"
    /\ cache_path = NoPath
    /\ transform_input = NoPath
    /\ table = OldContent
    /\ deck_files = {}
    /\ LoadIdle
    /\ GenIdle
    /\ ParseIdle
    /\ TextIdle
    /\ SoloIdle

SpecCached == InitCached /\ [][Next]_vars

\* ------------------------------------------------------------ the normaliser
\* A raw record of a snapshot: a JSON mapping or some other JSON value
\* (shape "scalar").  object "none": no type tag.  data_ok: 'data' is a
\* mapping.  meanings_ok: every entry of data['meanings'] has 'meaning'.
\* A reading entry has 'reading' (has_reading), a 'type' and 'primary'.
Reading(r, t, p) == [reading |-> r, type |-> t, primary |-> p, has_reading |-> TRUE]

Mapping(i, obj, dok, mok, rds) ==
    [shape |-> "mapping", id |-> i, object |-> obj, data_ok |-> dok,
     meanings_ok |-> mok, readings |-> rds]

SampleSubjects ==
    { Mapping(1, "radical", TRUE, TRUE, <<>>),
      Mapping(2, "kanji", TRUE, TRUE,
              <<Reading("kyou", "onyomi", TRUE), Reading("ke", "kunyomi", FALSE)>>),
      Mapping(3, "vocabulary", TRUE, TRUE, <<Reading("kyou", "none", TRUE)>>),
      Mapping(4, "none", TRUE, TRUE, <<>>),
      Mapping(5, "kanji", TRUE, TRUE,
              <<[reading |-> "", type |-> "onyomi", primary |-> TRUE,
                 has_reading |-> FALSE]>>),
      Mapping(6, "kana_vocabulary", TRUE, TRUE, <<>>),
      Mapping(7, "radical", TRUE, FALSE, <<>>),
      Mapping(8, "kanji", FALSE, TRUE, <<>>),
      Mapping(9, "kanji", TRUE, TRUE,
              <<Reading("shi", "onyomi", TRUE), Reading("shi", "kunyomi", FALSE),
                Reading("na", "nanori", FALSE)>>),
      Mapping(10, "kana_vocabulary", TRUE, TRUE,
              <<Reading("kyou", "onyomi", TRUE), Reading("ke", "kunyomi", FALSE)>>),
      Mapping(11, "kanji", TRUE, TRUE,
              <<Reading("ke", "kunyomi", FALSE), Reading("kou", "onyomi", TRUE),
                Reading("ka", "kunyomi", TRUE)>>),
      Mapping(12, "kanji", TRUE, TRUE, <<Reading("ka", "onyomi", FALSE)>>),
      [shape |-> "scalar", id |-> 0, object |-> "none", data_ok |-> FALSE,
       meanings_ok |-> FALSE, readings |-> <<>>] }

ReadingsOf(rds) == [i \in 1..Len(rds) |-> rds[i].reading]

IsOnyomi(r) == r.type = "onyomi"

IsKunyomi_not_onyomi(r) == r.type # "onyomi"

\* reading.get('type') == 'kunyomi'
IsKunyomi(r) == r.type = "kunyomi"

IsPrimary_ignoring_mark(r) == TRUE

\* reading.get('primary')
IsPrimary(r) == r.primary

AllHaveReading(rds) == \A i \in 1..Len(rds) : rds[i].has_reading

TypeFields_else_vocabulary(obj) ==
    IF obj = "radical" THEN {"meaning_mnemonic", "character_images"}
    ELSE IF obj = "kanji"
    THEN {"readings", "component_subject_ids", "amalgamation_subject_ids",
          "visually_similar_subject_ids", "meaning_mnemonic", "reading_mnemonic"}
    ELSE {"readings", "component_subject_ids", "amalgamation_subject_ids",
          "visually_similar_subject_ids", "meaning_mnemonic", "reading_mnemonic",
          "parts_of_speech", "context_sentences", "pronunciation_audios"}

\* Lines 131-162: the fields each type tag adds to the common ones.
TypeFields(obj) ==
    (IF obj \in {"kanji", "vocabulary"}
     THEN {"readings", "component_subject_ids", "amalgamation_subject_ids",
           "visually_similar_subject_ids", "meaning_mnemonic", "reading_mnemonic"}
     ELSE {})
    \cup (IF obj = "radical" THEN {"meaning_mnemonic", "character_images"} ELSE {})
    \cup (IF obj = "vocabulary"
          THEN {"parts_of_speech", "context_sentences", "pronunciation_audios"}
          ELSE {})

NoRow == [id |-> 0, object |-> "none", readings |-> <<>>, onyomi_readings |-> <<>>,
          kunyomi_readings |-> <<>>, primary_reading |-> "None", type_fields |-> {}]

\* parse_subject_data: outcome "row" with the row, or the exception that
\* leaves the function.  A record that is no mapping has no .get: line 102
\* raises AttributeError, and the handler's own subject_data.get (line 170)
\* raises it again, so AttributeError is what leaves.
parse_subject_data(s) ==
    IF s.shape # "mapping"
    THEN [outcome |-> "AttributeError", row |-> NoRow]
    ELSE IF s.object = "none"
    THEN [outcome |-> "ValueError", row |-> NoRow]
    ELSE IF ~s.data_ok
    THEN [outcome |-> "ValueError", row |-> NoRow]
    ELSE IF ~s.meanings_ok
    THEN [outcome |-> "KeyError", row |-> NoRow]
    ELSE IF s.object \in {"kanji", "vocabulary"} /\ ~AllHaveReading(s.readings)
    THEN [outcome |-> "KeyError", row |-> NoRow]
    ELSE LET kanji == s.object = "kanji"
             withReadings == s.object \in {"kanji", "vocabulary"}
             primaries == ReadingsOf(SelectSeq(s.readings, IsPrimary))
         IN  [outcome |-> "row",
              row |-> [id |-> s.id,
                       object |-> s.object,
                       readings |-> IF withReadings THEN ReadingsOf(s.readings) ELSE <<>>,
                       onyomi_readings |->
                           IF kanji THEN ReadingsOf(SelectSeq(s.readings, IsOnyomi))
                           ELSE <<>>,
                       kunyomi_readings |->
                           IF kanji THEN ReadingsOf(SelectSeq(s.readings, IsKunyomi))
                           ELSE <<>>,
                       primary_reading |->
                           IF kanji /\ primaries # <<>> THEN primaries[1] ELSE "None",
                       type_fields |-> TypeFields(s.object)]]

\* parse_subjects, line 59: raise ValueError on an empty list; else the loop
\* starts.
ParseEnter ==
    /\ p_state = "called"
    /\ IF p_input = <<>>
       THEN p_state' = "raised" /\ UNCHANGED p_idx
       ELSE p_state' = "looping" /\ p_idx' = 1
    /\ UNCHANGED <<p_input, p_rows, p_report, saveVars, flowVars>>

\* One turn of the loop (lines 66-78).  A record that fails is skipped by
\* the handler, whose subject.get('id', 'unknown') (line 76) itself raises
\* for a record that is no mapping: that error leaves the loop and the
\* outer handler (lines 83-85) re-raises it.
ParseRecord ==
    /\ p_state = "looping"
    /\ p_idx <= Len(p_input)
    /\ LET r == parse_subject_data(p_input[p_idx])
       IN  IF r.outcome = "row"
           THEN /\ p_rows' = Append(p_rows, r.row)
                /\ p_idx' = p_idx + 1
                /\ UNCHANGED p_state
           ELSE IF p_input[p_idx].shape = "mapping"
           THEN /\ p_idx' = p_idx + 1
                /\ UNCHANGED <<p_rows, p_state>>
           ELSE /\ p_state' = "raised"
                /\ UNCHANGED <<p_rows, p_idx>>
    /\ UNCHANGED <<p_input, p_report, saveVars, flowVars>>

\* Lines 80-81: "Successfully parsed {len(parsed_subjects)}/{total}", return.
ParseReturn ==
    /\ p_state = "looping"
    /\ p_idx > Len(p_input)
    /\ p_report' = <<Len(p_rows), Len(p_input)>>
    /\ p_state' = "returned"
    /\ UNCHANGED <<p_input, p_idx, p_rows, saveVars, flowVars>>

\* ------------------------------------------------------------------ save_data
Formats == {"excel", "parquet", "csv"}

\* A destination file left by an earlier run, and one left behind by a
\* writer that raised after opening it.
OldTable == [exists |-> TRUE, format |-> "excel", rows |-> <<NoRow>>]
PartialFile == [exists |-> TRUE, format |-> "partial", rows |-> <<>>]

save_data_any_format(rows, fmt, file, write) ==
    IF rows = <<>>
    THEN [outcome |-> "ValueError", file |-> file]
    ELSE IF write = "ok"
    THEN [outcome |-> "written",
          file |-> [exists |-> TRUE, format |-> fmt, rows |-> rows]]
    ELSE [outcome |-> "IOError",
          file |-> IF write = "partial" THEN PartialFile ELSE file]

\* save_data(parsed_subjects, output_filename, format) on the destination
\* `file`.  Lines 263-267: both validations raise ValueError before the
\* path is built.  Lines 269-280: the frame is written over the file;
\* `write` says how the writer fared ("ok", or it raised before or after
\* the file was opened for writing).
save_data(rows, fmt, file, write) ==
    IF rows = <<>>
    THEN [outcome |-> "ValueError", file |-> file]
    ELSE IF fmt \notin {"excel", "parquet"}
    THEN [outcome |-> "ValueError", file |-> file]
    ELSE IF write = "ok"
    THEN [outcome |-> "written",
          file |-> [exists |-> TRUE, format |-> fmt, rows |-> rows]]
    ELSE [outcome |-> "IOError",
          file |-> IF write = "partial" THEN PartialFile ELSE file]

\* A call save_data(parsed_subjects, name, fmt) with the list parse_subjects
\* returned.
SaveData(fmt, write) ==
    /\ p_state = "returned"
    /\ format' = fmt
    /\ LET r == save_data(p_rows, fmt, dest, write)
       IN  /\ save_outcome' = r.outcome
           /\ dest' = r.file
           /\ p_state' = IF r.outcome = "written" THEN "saved" ELSE "save_raised"
    /\ UNCHANGED <<p_input, p_idx, p_rows, p_report, dest0, flowVars>>

\* Every list of at most n sample records.
ListsUpTo(n) == UNION {[1..k -> SampleSubjects] : k \in 0..n}

FlowOff ==
    /\ use_cached = FALSE
    /\ force_refresh = FALSE
    /\ max_cache_age_days = 0
    /\ api_pages = 1
    /\ api_empty = FALSE
    /\ files = [n \in SnapshotNames |-> NoFile]
    /\ files0 = files
    /\ api_token = "unread"
    /\ database_url = "unread"
    /\ pc = "off"
    /\ stage_state = [s \in Stages |-> "idle"]
    /\ calls = [s \in Stages |-> 0]
    /\ attempt = 0
    /\ flow_error = "none"
    /\ result = {}
    /\ is_fresh = FALSE
    /\ cached_file = NoPath
    /\ json_filepath = NoPath
    /\ url = NoUrl
    /\ retry_count = 0
    /\ subjects = <<>>
    /\ slept = 0
    /\ last_resp = "none"
    /\ page_reqs = 0
    /\ fetch_outcome = "none"
    /\ returned = <<>>
    /\ auth_failed = FALSE
    /\ req_after_auth = FALSE
    /\ cache_outcome = "none"
    /\ cache_path = NoPath
    /\ transform_input = NoPath
    /\ excel = InitExcel
    /\ table = OldContent
    /\ deck_files = {}
    /\ transform_cache = {}
    /\ LoadIdle
    /\ GenIdle

FlowIdle ==
    /\ FlowOff
    /\ SoloIdle

InitParse ==
    /\ FlowIdle
    /\ TextIdle
    /\ p_input \in ListsUpTo(MaxSubjects)
    /\ p_idx = 0
    /\ p_rows = <<>>
    /\ p_report = <<0, 0>>
    /\ p_state = "called"
    /\ format = "none"
    /\ dest \in {NoTable, OldTable}
    /\ dest0 = dest
    /\ save_outcome = "none"

NextParse ==
    \/ ParseEnter
    \/ ParseRecord
    \/ ParseReturn
    \/ \E fmt \in Formats, write \in {"ok", "failed", "partial"} : SaveData(fmt, write)

SpecParse == InitParse /\ [][NextParse]_vars

\* ------------------------------------------------- the load task on its own
\* The source files the loader can be handed: none at the path, a sheet
\* with no data rows, a sheet with rows.
SourceFiles ==
    { [exists |-> FALSE, source |-> NoPath, records |-> <<>>],
      [exists |-> TRUE, source |-> Today, records |-> <<>>],
      [exists |-> TRUE, source |-> Today, records |-> << <<1, 1>> >>],
      [exists |-> TRUE, source |-> Today, records |-> << <<1, 1>>, <<1, 2>> >>] }

\* load_to_database_task(excel_path, database_url) called with any source
\* file, on a database holding any of the views and an old table or none.
InitLoad ==
    /\ use_cached = FALSE
    /\ force_refresh = FALSE
    /\ max_cache_age_days = 0
    /\ api_pages = 1
    /\ api_empty = FALSE
    /\ files = [n \in SnapshotNames |-> NoFile]
    /\ files0 = files
    /\ api_token = "present"
    /\ database_url = "present"
    /\ pc = "call_load"
    /\ stage_state = [s \in Stages |-> "idle"]
    /\ calls = [s \in Stages |-> 0]
    /\ attempt = 0
    /\ flow_error = "none"
    /\ result = {}
    /\ is_fresh = FALSE
    /\ cached_file = NoPath
    /\ json_filepath = NoPath
    /\ url = NoUrl
    /\ retry_count = 0
    /\ subjects = <<>>
    /\ slept = 0
    /\ last_resp = "none"
    /\ page_reqs = 0
    /\ fetch_outcome = "none"
    /\ returned = <<>>
    /\ auth_failed = FALSE
    /\ req_after_auth = FALSE
    /\ cache_outcome = "none"
    /\ cache_path = NoPath
    /\ transform_input = NoPath
    /\ excel \in SourceFiles
    /\ table \in {<<>>, OldContent}
    /\ deck_files = {}
    /\ transform_cache = {}
    /\ views \in SUBSET AllViews
    /\ view_idx = 0
    /\ row_count = 0
    /\ load_error = "none"
    /\ views0 = views
    /\ table0 = table
    /\ GenIdle
    /\ ParseIdle
    /\ TextIdle
    /\ SoloIdle

\* The pipeline is run again on the database and the tabular file the
\* earlier run left, whether its load returned or failed: line 349 of the
\* next flow run.
LoadRerun ==
    /\ pc \in {"call_generate", "failed"}
    /\ calls["load"] < MaxLoadRuns
    /\ pc' = "call_load"
    /\ flow_error' = "none"
    /\ stage_state' = [stage_state EXCEPT !["load"] = "idle"]
    /\ UNCHANGED <<calls, attempt, credVars, result, files, checkOut,
                   json_filepath, fetchLocals, fetchOut, authHist, cacheOut,
                   transform_input, artifacts, fixedVars>>

NextLoad ==
    \/ CallLoad
    \/ \E db_ok \in BOOLEAN : LoadConnect(db_ok)
    \/ \E db_ok \in BOOLEAN : DropView(db_ok)
    \/ \E read_ok \in BOOLEAN, db_ok \in BOOLEAN : LoadExcel(read_ok, db_ok)
    \/ \E db_ok \in BOOLEAN : CreateView(db_ok)
    \/ RetryTask("load")
    \/ PropagateFailure("load")
    \/ LoadRerun

SpecLoad == InitLoad /\ [][NextLoad]_vars

\* --------------------------------------------- the generate task on its own
\* Tables the views can project: none, radicals only, one row of each of two
\* types, one of each of the three.
SampleTables ==
    { <<>>, << <<1, 1>> >>, << <<1, 1>>, <<1, 2>> >>,
      << <<1, 1>>, <<1, 2>>, <<1, 3>> >> }

\* generate_anki_decks_task(database_url) called by the flow on a database
\* holding any of the views over any of the tables.
InitGen ==
    /\ use_cached = FALSE
    /\ force_refresh = FALSE
    /\ max_cache_age_days = 0
    /\ api_pages = 1
    /\ api_empty = FALSE
    /\ files = [n \in SnapshotNames |-> NoFile]
    /\ files0 = files
    /\ api_token = "present"
    /\ database_url = "present"
    /\ pc = "call_generate"
    /\ stage_state = [s \in Stages |-> "idle"]
    /\ calls = [s \in Stages |-> 0]
    /\ attempt = 0
    /\ flow_error = "none"
    /\ result = {}
    /\ is_fresh = FALSE
    /\ cached_file = NoPath
    /\ json_filepath = NoPath
    /\ url = NoUrl
    /\ retry_count = 0
    /\ subjects = <<>>
    /\ slept = 0
    /\ last_resp = "none"
    /\ page_reqs = 0
    /\ fetch_outcome = "none"
    /\ returned = <<>>
    /\ auth_failed = FALSE
    /\ req_after_auth = FALSE
    /\ cache_outcome = "none"
    /\ cache_path = NoPath
    /\ transform_input = NoPath
    /\ excel = InitExcel
    /\ table \in SampleTables
    /\ deck_files = {}
    /\ transform_cache = {}
    /\ views \in SUBSET AllViews
    /\ view_idx = 0
    /\ row_count = 0
    /\ load_error = "none"
    /\ views0 = views
    /\ table0 = table
    /\ GenIdle
    /\ ParseIdle
    /\ TextIdle
    /\ SoloIdle

NextGen ==
    \/ CallGenerate
    \/ \E db_ok \in BOOLEAN : GenConnect(db_ok)
    \/ \E how \in {"ok", "query", "transform", "write"} : BuildDeck(how)
    \/ \E how \in {"ok", "write"} : BundleDecks(how)
    \/ RetryTask("generate")
    \/ PropagateFailure("generate")
    \/ FlowReturn

SpecGen == InitGen /\ [][NextGen]_vars

\* ------------------------------------------------ the cache check on its own
\* What a statement of check_cache_freshness_task leaves alone.
checkFrame == <<credVars, flow_error, result, files, fetchLocals, fetchOut,
                authHist, cacheOut, transform_input, artifacts, argVars,
                envVars, parseVars, textVars, fetchCall, pathVars>>

\* The task returns (fresh, path) and the flow binds json_filepath (lines
\* 326-332).
CheckReturns(fresh, path) ==
    /\ is_fresh' = fresh
    /\ cached_file' = path
    /\ json_filepath' = IF fresh /\ path # NoPath THEN path ELSE NoPath
    /\ TaskReturns("check", "gate")

\* Lines 91-96: cache_files = glob.glob(pattern); no file: return False, None.
CheckGlob ==
    /\ pc = "check"
    /\ cache_files' = CacheFiles(files)
    /\ IF CacheFiles(files) = {}
       THEN CheckReturns(FALSE, NoPath)
       ELSE /\ pc' = "check_latest"
            /\ UNCHANGED <<stage_state, calls, attempt, checkOut, json_filepath>>
    /\ UNCHANGED <<latest_file, check_error, checkFrame>>

\* Line 99: latest_file = max(cache_files, key=st_mtime).  stat_ok = FALSE:
\* Path(f).stat() raised OSError for a listed entry (a dangling link, a file
\* removed since the listing); control goes to the handler of line 111.
CheckLatest(stat_ok) ==
    /\ pc = "check_latest"
    /\ IF stat_ok
       THEN /\ \E latest \in LatestFiles(files) : latest_file' = latest
            /\ pc' = "check_age"
            /\ UNCHANGED check_error
       ELSE /\ check_error' = "OSError"
            /\ pc' = "check_except"
            /\ UNCHANGED latest_file
    /\ UNCHANGED <<stage_state, calls, attempt, cache_files, checkOut,
                   json_filepath, checkFrame>>

\* Lines 100-109: the age of latest_file, is_fresh, and the return.
CheckAge(stat_ok) ==
    /\ pc = "check_age"
    /\ IF stat_ok
       THEN LET r == check_cache_freshness_task(files, max_cache_age_days, latest_file)
            IN  /\ CheckReturns(r.is_fresh, r.filepath)
                /\ UNCHANGED check_error
       ELSE /\ check_error' = "OSError"
            /\ pc' = "check_except"
            /\ UNCHANGED <<stage_state, calls, attempt, checkOut, json_filepath>>
    /\ UNCHANGED <<cache_files, latest_file, checkFrame>>

\* Lines 111-113: except Exception: print, return False, None.
CheckExcept ==
    /\ pc = "check_except"
    /\ CheckReturns(FALSE, NoPath)
    /\ UNCHANGED <<checkLocals, checkFrame>>

\* wanikani_anki_pipeline() with its defaults (use_cached, no force_refresh)
\* and both credentials read, on any set of snapshot files.
InitCheck ==
    /\ use_cached = TRUE
    /\ force_refresh = FALSE
    /\ max_cache_age_days \in 0..MaxAgeDays
    /\ api_pages = 1
    /\ api_empty = FALSE
    /\ files \in InitialFiles
    /\ files0 = files
    /\ api_token = "present"
    /\ database_url = "present"
    /\ pc = "source"
    /\ stage_state = [s \in Stages |-> "idle"]
    /\ calls = [s \in Stages |-> 0]
    /\ attempt = 0
    /\ flow_error = "none"
    /\ result = {}
    /\ is_fresh = FALSE
    /\ cached_file = NoPath
    /\ json_filepath = NoPath
    /\ url = NoUrl
    /\ retry_count = 0
    /\ subjects = <<>>
    /\ slept = 0
    /\ last_resp = "none"
    /\ page_reqs = 0
    /\ fetch_outcome = "none"
    /\ returned = <<>>
    /\ auth_failed = FALSE
    /\ req_after_auth = FALSE
    /\ cache_outcome = "none"
    /\ cache_path = NoPath
    /\ transform_input = NoPath
    /\ excel = InitExcel
    /\ table = OldContent
    /\ deck_files = {}
    /\ transform_cache = {}
    /\ LoadIdle
    /\ GenIdle
    /\ ParseIdle
    /\ TextIdle
    /\ SoloIdle

NextCheck ==
    \/ DetermineSource
    \/ CheckGlob
    \/ \E stat_ok \in BOOLEAN : CheckLatest(stat_ok)
    \/ \E stat_ok \in BOOLEAN : CheckAge(stat_ok)
    \/ CheckExcept
    \/ ExtractGate

SpecCheck == InitCheck /\ [][NextCheck]_vars

\* ------------------------------------------- fetch_all_subjects on its own
\* fetch_all_subjects(api_token, max_retries, retry_delay) followed loop
\* test by loop test, for any value of max_retries and any chain of pages.
fetchCallFrame == <<flowCore, textVars, parseVars, checkLocals, pathVars>>

InnerLoopRuns_once_more(rc, mr, success) == rc <= mr /\ ~success

\* Line 42: while retry_count < max_retries and not success
InnerLoopRuns(rc, mr, success) == rc < mr /\ ~success

\* Lines 26-33: a missing token raises ValueError; else the locals are set.
FetchEnter ==
    /\ f_pc = "f_called"
    /\ IF f_token = "missing"
       THEN /\ f_pc' = "f_raised"
            /\ f_outcome' = "ValueError"
            /\ UNCHANGED f_url
       ELSE /\ f_pc' = "f_outer"
            /\ f_url' = 1
            /\ UNCHANGED f_outcome
    /\ UNCHANGED <<f_token, f_max_retries, f_retry_count, f_success, f_subjects,
                   f_requests, fetchCallFrame>>

\* Lines 37-39: while url: retry_count = 0; success = False.  With no url
\* left the list is returned (lines 91-92).
FetchOuterTest ==
    /\ f_pc = "f_outer"
    /\ IF f_url # NoUrl
       THEN /\ f_retry_count' = 0
            /\ f_success' = FALSE
            /\ f_pc' = "f_inner"
            /\ UNCHANGED f_outcome
       ELSE /\ f_pc' = "f_returned"
            /\ f_outcome' = "returned"
            /\ UNCHANGED <<f_retry_count, f_success>>
    /\ UNCHANGED <<f_token, f_max_retries, f_url, f_subjects, f_requests,
                   fetchCallFrame>>

\* Lines 42-84: the inner loop's test holds, requests.get is issued and
\* answered by resp.
FetchRequest(resp) ==
    /\ f_pc = "f_inner"
    /\ InnerLoopRuns(f_retry_count, f_max_retries, f_success)
    /\ f_requests' = f_requests + 1
    /\ CASE resp = "200" ->
              /\ f_subjects' = Extend(f_subjects, PageData(f_url))
              /\ f_url' = NextUrl(f_url)
              /\ f_success' = TRUE
              /\ UNCHANGED <<f_retry_count, f_pc, f_outcome>>
         [] resp = "401" ->
              /\ f_pc' = "f_raised"
              /\ f_outcome' = "ValueError"
              /\ UNCHANGED <<f_subjects, f_url, f_success, f_retry_count>>
         [] resp = "badjson" ->
              /\ f_pc' = "f_raised"
              /\ f_outcome' = "JSONDecodeError"
              /\ UNCHANGED <<f_subjects, f_url, f_success, f_retry_count>>
         [] OTHER ->
              /\ f_retry_count' = f_retry_count + 1
              /\ UNCHANGED <<f_subjects, f_url, f_success, f_pc, f_outcome>>
    /\ UNCHANGED <<f_token, f_max_retries, fetchCallFrame>>

\* Lines 86-89: the inner loop's test fails; without success the call
\* raises RequestException, else the outer loop tests url again.
FetchInnerExit ==
    /\ f_pc = "f_inner"
    /\ ~InnerLoopRuns(f_retry_count, f_max_retries, f_success)
    /\ IF f_success
       THEN f_pc' = "f_outer" /\ UNCHANGED f_outcome
       ELSE f_pc' = "f_raised" /\ f_outcome' = "RequestException"
    /\ UNCHANGED <<f_token, f_max_retries, f_url, f_retry_count, f_success,
                   f_subjects, f_requests, fetchCallFrame>>

Responses == {"200", "401", "429", "other", "timeout", "connection", "badjson"}

InitFetch ==
    /\ use_cached = FALSE
    /\ force_refresh = FALSE
    /\ max_cache_age_days = 0
    /\ api_pages \in 1..MaxPages
    /\ api_empty \in BOOLEAN
    /\ files = [n \in SnapshotNames |-> NoFile]
    /\ files0 = files
    /\ api_token = "unread"
    /\ database_url = "unread"
    /\ pc = "off"
    /\ stage_state = [s \in Stages |-> "idle"]
    /\ calls = [s \in Stages |-> 0]
    /\ attempt = 0
    /\ flow_error = "none"
    /\ result = {}
    /\ is_fresh = FALSE
    /\ cached_file = NoPath
    /\ json_filepath = NoPath
    /\ url = NoUrl
    /\ retry_count = 0
    /\ subjects = <<>>
    /\ slept = 0
    /\ last_resp = "none"
    /\ page_reqs = 0
    /\ fetch_outcome = "none"
    /\ returned = <<>>
    /\ auth_failed = FALSE
    /\ req_after_auth = FALSE
    /\ cache_outcome = "none"
    /\ cache_path = NoPath
    /\ transform_input = NoPath
    /\ excel = InitExcel
    /\ table = OldContent
    /\ deck_files = {}
    /\ transform_cache = {}
    /\ LoadIdle
    /\ GenIdle
    /\ ParseIdle
    /\ TextIdle
    /\ CheckIdle
    /\ PathIdle
    /\ f_token \in {"present", "missing"}
    /\ f_max_retries \in 0..MaxRetriesArg
    /\ f_pc = "f_called"
    /\ f_url = NoUrl
    /\ f_retry_count = 0
    /\ f_success = FALSE
    /\ f_subjects = <<>>
    /\ f_requests = 0
    /\ f_outcome = "none"

NextFetch ==
    \/ FetchEnter
    \/ FetchOuterTest
    \/ \E resp \in Responses : FetchRequest(resp)
    \/ FetchInnerExit

\* Every request returns or raises (timeout=30) and every sleep ends, so a
\* call that can take a step takes one.
SpecFetch == InitFetch /\ [][NextFetch]_vars /\ WF_vars(NextFetch)

\* ------------------------------------- where the artifacts of a run are put
\* What a step of this part leaves alone.
pathFrame == <<flowCore, textVars, parseVars, checkLocals, fetchCall>>

\* A run of the pipeline is started in working directory wd.
PathStart(wd) ==
    /\ path_pc \in {"p_idle", "p_done", "p_failed"}
    /\ run_no < MaxPathRuns
    /\ run_no' = run_no + 1
    /\ cwd' = wd
    /\ path_pc' = "p_check"
    /\ check_dir' = "none"
    /\ json_handed' = NoDataPath
    /\ excel_written' = NoDataPath
    /\ excel_handed' = NoDataPath
    /\ load_read' = Absent
    /\ UNCHANGED <<disk, json_written, pathFrame>>

\* check_cache_freshness_task, flow lines 91-92 and 321-332: the pattern is
\* DATA_DIR / CACHE_FILE_PATTERN.  The snapshot of an earlier run of the
\* same day is fresh; the file found is handed to the transform stage and
\* the fetch is skipped, otherwise the fetch stage runs.
PathCheck ==
    /\ path_pc = "p_check"
    /\ check_dir' = DATA_DIR(CACHE_FILE)[1]
    /\ IF disk[DATA_DIR(CACHE_FILE)] # Absent
       THEN /\ json_handed' = DATA_DIR(CACHE_FILE)
            /\ path_pc' = "p_transform"
       ELSE /\ json_handed' = NoDataPath
            /\ path_pc' = "p_fetch"
    /\ UNCHANGED <<cwd, disk, run_no, json_written, excel_written, excel_handed,
                   load_read, pathFrame>>

\* cache_data(subjects) with directory='data' (a-extract lines 104, 125-134,
\* 140): the snapshot is written to os.path.join('data', filename), a path
\* relative to the working directory, and that path is returned.
PathFetch ==
    /\ path_pc = "p_fetch"
    /\ json_written' = RelativeData(cwd, CACHE_FILE)
    /\ disk' = [disk EXCEPT ![json_written'] = run_no]
    /\ json_handed' = json_written'
    /\ path_pc' = "p_transform"
    /\ UNCHANGED <<cwd, run_no, check_dir, excel_written, excel_handed,
                   load_read, pathFrame>>

\* transform_data_task (flow lines 168-179): the snapshot handed in is read,
\* save_data writes os.path.join('data', 'wanikani_subjects.xlsx')
\* (b-transform line 270), a path relative to the working directory, and the
\* task returns str(get_excel_filepath()), which is DATA_DIR / EXCEL_OUTPUT.
PathTransform ==
    /\ path_pc = "p_transform"
    /\ excel_written' = RelativeData(cwd, EXCEL_OUTPUT)
    /\ disk' = [disk EXCEPT ![excel_written'] = disk[json_handed]]
    /\ excel_handed' = DATA_DIR(EXCEL_OUTPUT)
    /\ path_pc' = "p_load"
    /\ UNCHANGED <<cwd, run_no, check_dir, json_written, json_handed, load_read,
                   pathFrame>>

\* load_to_database_task(excel_path, ..): the file named by the path handed
\* in is read (c-load load_excel_to_database); FileNotFoundError when it
\* does not exist.
PathLoad ==
    /\ path_pc = "p_load"
    /\ load_read' = disk[excel_handed]
    /\ path_pc' = IF disk[excel_handed] = Absent THEN "p_failed" ELSE "p_done"
    /\ UNCHANGED <<cwd, disk, run_no, check_dir, json_written, json_handed,
                   excel_written, excel_handed, pathFrame>>

InitPaths ==
    /\ FlowOff
    /\ ParseIdle
    /\ TextIdle
    /\ CheckIdle
    /\ FetchCallIdle
    /\ cwd = WANIKANI_SCRIPTS_DIR
    /\ disk = [f \in WorkingDirs \X DataFiles |-> Absent]
    /\ run_no = 0
    /\ path_pc = "p_idle"
    /\ check_dir = "none"
    /\ json_written = NoDataPath
    /\ json_handed = NoDataPath
    /\ excel_written = NoDataPath
    /\ excel_handed = NoDataPath
    /\ load_read = Absent

NextPaths ==
    \/ \E wd \in WorkingDirs : PathStart(wd)
    \/ PathCheck
    \/ PathFetch
    \/ PathTransform
    \/ PathLoad

SpecPaths == InitPaths /\ [][NextPaths]_vars

\* ------------------------------------------------ the Deck Builder's text
\* A string is the sequence of its characters; the tags <b> and </b> are
\* one symbol each.
Whitespace == {" "}

RECURSIVE LStrip(_)
LStrip(s) == IF s # <<>> /\ Head(s) \in Whitespace THEN LStrip(Tail(s)) ELSE s

RECURSIVE RStrip(_)
RStrip(s) ==
    IF s # <<>> /\ s[Len(s)] \in Whitespace THEN RStrip(SubSeq(s, 1, Len(s) - 1)) ELSE s

\* str.strip()
Strip(s) == RStrip(LStrip(s))

\* Lines 53-56: clean_item = item.strip(); one layer of surrounding single
\* quotes is removed when the stripped item starts and ends with one.
CleanItem(item) ==
    LET t == Strip(item)
    IN  IF t # <<>> /\ Head(t) = "'" /\ t[Len(t)] = "'"
        THEN SubSeq(t, 2, Len(t) - 1)
        ELSE t

\* clean_list_items(items)
clean_list_items(items) == [i \in 1..Len(items) |-> CleanItem(items[i])]

Bold_rewrap(reading, primary) ==
    IF reading = primary \/ reading = <<"<b>">> \o primary \o <<"</b>">>
    THEN <<"<b>">> \o reading \o <<"</b>">>
    ELSE reading

\* f"<b>{reading}</b>" if reading == primary_reading else reading
Bold(reading, primary) ==
    IF reading = primary THEN <<"<b>">> \o reading \o <<"</b>">> ELSE reading

bolden_primary_reading_uncleaned(readings, primary) ==
    [i \in 1..Len(readings) |-> Bold(readings[i], primary)]

\* bolden_primary_reading(readings, primary_reading)
bolden_primary_reading(readings, primary) ==
    LET cleaned_readings == clean_list_items(readings)
    IN  [i \in 1..Len(cleaned_readings) |-> Bold(cleaned_readings[i], primary)]

\* primary_reading = None: equal to no string.
NoPrimary == <<"None">>

\* Every string of at most n characters over the alphabet A.
StringsUpTo(A, n) == UNION {[1..k -> A] : k \in 0..n}

\* The reading strings of the model: letters, quotes and blanks.
ReadingStrings == StringsUpTo({"a", "'", " "}, MaxStrLen)

\* The reading lists handed to the bolding: lists of up to MaxReadings
\* reading strings, and longer lists of short strings.
ReadingLists ==
    UNION {[1..k -> ReadingStrings] : k \in 0..MaxReadings}
    \cup UNION {[1..k -> StringsUpTo({"a", "'", " "}, MaxItemLen)] : k \in 0..MaxItems}

\* The first and the second application of the bolding to its own output.
Bolden ==
    /\ txt_pc = "bold_called"
    /\ txt_a' = bolden_primary_reading(txt_in, txt_primary)
    /\ txt_pc' = "bold_once"
    /\ UNCHANGED <<txt_in, txt_primary, txt_b, txt_c, flowVarsButText, parseVars>>

BoldenAgain ==
    /\ txt_pc = "bold_once"
    /\ txt_b' = bolden_primary_reading(txt_a, txt_primary)
    /\ txt_pc' = "bold_twice"
    /\ UNCHANGED <<txt_in, txt_primary, txt_a, txt_c, flowVarsButText, parseVars>>

InitBold ==
    /\ FlowIdle
    /\ ParseIdle
    /\ txt_in \in ReadingLists
    /\ txt_primary \in {NoPrimary} \cup StringsUpTo({"a", "'", " "}, 1)
    /\ txt_a = <<>>
    /\ txt_b = <<>>
    /\ txt_c = <<>>
    /\ txt_pc = "bold_called"

NextBold ==
    \/ Bolden
    \/ BoldenAgain

SpecBold == InitBold /\ [][NextBold]_vars

\* ---------------------------------------------- list fields through the store
\* s with a backslash before every backslash and single quote.
RECURSIVE Escaped(_)
Escaped(s) ==
    IF s = <<>> THEN <<>>
    ELSE IF Head(s) \in {"'", "\\"} THEN <<"\\", Head(s)>> \o Escaped(Tail(s))
    ELSE <<Head(s)>> \o Escaped(Tail(s))

\* repr(str): in double quotes when the string holds a single quote and no
\* double quote, else in single quotes with quotes and backslashes escaped.
PyRepr(s) ==
    IF (\E i \in 1..Len(s) : s[i] = "'") /\ ~(\E i \in 1..Len(s) : s[i] = "\"")
    THEN <<"\"">> \o s \o <<"\"">>
    ELSE <<"'">> \o Escaped(s) \o <<"'">>

RECURSIVE JoinRepr(_)
\* ', '.join(repr(x) for x in items)
JoinRepr(items) ==
    IF items = <<>> THEN <<>>
    ELSE IF Len(items) = 1 THEN PyRepr(items[1])
    ELSE PyRepr(Head(items)) \o <<",", " ">> \o JoinRepr(Tail(items))

\* The store form of a list cell: df.to_excel writes str(list) (b-transform
\* line 276), which the loader copies to the text column.
ListToStore(items) == <<"[">> \o JoinRepr(items) \o <<"]">>

RECURSIVE LTrim(_, _)
LTrim(s, cs) == IF s # <<>> /\ Head(s) \in cs THEN LTrim(Tail(s), cs) ELSE s

RECURSIVE RTrim(_, _)
RTrim(s, cs) ==
    IF s # <<>> /\ s[Len(s)] \in cs THEN RTrim(SubSeq(s, 1, Len(s) - 1), cs) ELSE s

\* trim('[]' from x): every leading and trailing [ and ] is removed.
TrimBrackets(s) == RTrim(LTrim(s, {"[", "]"}), {"[", "]"})

RECURSIVE SplitOn(_, _, _)
\* The fields of s between separators c, cur being the field begun.
SplitOn(s, c, cur) ==
    IF s = <<>> THEN <<cur>>
    ELSE IF Head(s) = c THEN <<cur>> \o SplitOn(Tail(s), c, <<>>)
    ELSE SplitOn(Tail(s), c, Append(cur, Head(s)))

\* string_to_array(x, ','): no element for the empty string.
string_to_array(s, c) == IF s = <<>> THEN <<>> ELSE SplitOn(s, c, <<>>)

\* string_to_array(trim('[]' from <column>), ',') of the views.
ViewDecodeList(stored) == string_to_array(TrimBrackets(stored), ",")

\* The items of list fields in the model.
ItemStrings == StringsUpTo({"a", "'", "\"", " ", ","}, MaxItemLen)

\* The list is written to its store form.
StoreEncode ==
    /\ txt_pc = "rt_called"
    /\ txt_a' = ListToStore(txt_in)
    /\ txt_pc' = "rt_stored"
    /\ UNCHANGED <<txt_in, txt_primary, txt_b, txt_c, flowVarsButText, parseVars>>

\* The view unpacks the stored string into an array.
ViewDecode ==
    /\ txt_pc = "rt_stored"
    /\ txt_b' = ViewDecodeList(txt_a)
    /\ txt_pc' = "rt_decoded"
    /\ UNCHANGED <<txt_in, txt_primary, txt_a, txt_c, flowVarsButText, parseVars>>

\* The Deck Builder cleans the items: clean_list_items(item[<field>]).
CleanDecoded ==
    /\ txt_pc = "rt_decoded"
    /\ txt_c' = clean_list_items(txt_b)
    /\ txt_pc' = "rt_cleaned"
    /\ UNCHANGED <<txt_in, txt_primary, txt_a, txt_b, flowVarsButText, parseVars>>

InitRoundTrip ==
    /\ FlowIdle
    /\ ParseIdle
    /\ txt_in \in UNION {[1..k -> ItemStrings] : k \in 0..MaxItems}
    /\ txt_primary = <<>>
    /\ txt_a = <<>>
    /\ txt_b = <<>>
    /\ txt_c = <<>>
    /\ txt_pc = "rt_called"

NextRoundTrip ==
    \/ StoreEncode
    \/ ViewDecode
    \/ CleanDecoded

SpecRoundTrip == InitRoundTrip /\ [][NextRoundTrip]_vars

\* ===================================================================== claims
Started(s) == stage_state[s] # "idle"

StageOrder(s) ==
    CASE s = "check" -> 1
      [] s = "fetch" -> 2
      [] s = "transform" -> 3
      [] s = "load" -> 4
      [] s = "generate" -> 5

\* n is a snapshot the run found in the data directory and no other
\* snapshot there was modified later.
NewestSnapshot(n) ==
    /\ n \in SnapshotNames
    /\ files0[n].exists
    /\ \A m \in SnapshotNames : files0[m].exists => files0[m].mtime <= files0[n].mtime

\* Age of snapshot n at the time of the run, in ticks.
AgeTicks(n) == Now - files0[n].mtime

\* C1: the stages start in the order cache check, fetch (only when no fresh
\* snapshot is used), transform, load, generate; a stage starts only after
\* the stage before it has returned successfully; no two stages overlap; and
\* the deck map is returned only after generate has succeeded.
C1_StagesInOrder ==
    /\ Cardinality({s \in Stages : stage_state[s] = "running"}) <= 1
    /\ \A s, t \in Stages :
          (StageOrder(s) < StageOrder(t) /\ stage_state[s] \in {"running", "failed"})
             => stage_state[t] = "idle"
    /\ Started("fetch") =>
          /\ stage_state["check"] \in {"idle", "ok"}
          /\ stage_state["check"] = "ok" => ~is_fresh
    /\ Started("transform") =>
          \/ stage_state["fetch"] = "ok"
          \/ /\ stage_state["fetch"] = "idle"
             /\ stage_state["check"] = "ok"
             /\ is_fresh
    /\ Started("load") => stage_state["transform"] = "ok"
    /\ Started("generate") => stage_state["load"] = "ok"
    /\ pc = "done" => (stage_state["generate"] = "ok" /\ result = DeckMap)
    /\ result # {} => pc = "done"

\* A complete run in which all five stages ran: the check found no fresh
\* snapshot, so the fetch ran too.
C1_Witness ==
    /\ pc = "done"
    /\ stage_state["check"] = "ok"
    /\ stage_state["fetch"] = "ok"

\* The conditions under which C2 expects the fetch to be skipped.
SkipExpected ==
    /\ use_cached
    /\ ~force_refresh
    /\ \E n \in SnapshotNames :
          NewestSnapshot(n) /\ AgeTicks(n) < max_cache_age_days * TicksPerDay

C4_FailureAbortsRun ==
    /\ \A s \in Stages : calls[s] <= 1
    /\ \A s \in Stages :
          stage_state[s] = "failed" =>
              /\ pc \in {"task_failed", "failed"}
              /\ result = {}
              /\ \A t \in Stages :
                    StageOrder(s) < StageOrder(t) => (stage_state[t] = "idle" /\ calls[t] = 0)
    /\ pc = "failed" =>
          /\ flow_error \in {"fetch", "transform", "load", "generate"}
          /\ stage_state[flow_error] = "failed"
          /\ attempt = TaskRetries(flow_error) + 1
    /\ (pc \in {"return", "done"}) => \A s \in Stages : stage_state[s] \in {"idle", "ok"}

\* The run ended with the transform stage's failure.
C4_Witness ==
    /\ pc = "failed"
    /\ flow_error = "transform"
    /\ stage_state["fetch"] = "ok"

\* C5: with the API token or the database URL missing the flow raises a
\* configuration error before the cache check and before any stage, leaving
\* files and database unchanged, whatever use_cached and force_refresh are
\* and also when a fresh snapshot exists.
C5_ConfigErrorBeforeStages ==
    /\ pc \notin {"validate", "off"} =>
          ((pc = "config_error") <=> (api_token = "missing" \/ database_url = "missing"))
    /\ (api_token = "missing" \/ database_url = "missing") =>
          /\ flow_error = "config"
          /\ \A s \in Stages : stage_state[s] = "idle" /\ calls[s] = 0
          /\ files = files0
          /\ excel = InitExcel
          /\ table = OldContent
          /\ deck_files = {}
          /\ result = {}

\* Only the database URL is missing, and a fresh snapshot would have made
\* the fetch unnecessary.
C5_Witness ==
    /\ pc = "config_error"
    /\ api_token = "present"
    /\ database_url = "missing"
    /\ SkipExpected

\* C6: after a 401 answer the fetch is not retried: no request is issued
\* again in the run and no snapshot is written.
C6_AuthFailureNotRetried ==
    /\ ~req_after_auth
    /\ auth_failed => (files = files0 /\ stage_state["fetch"] # "ok")

C7_State ==
    /\ page_reqs <= max_retries
    /\ (pc = "fetching" /\ last_resp \in {"timeout", "connection"}) =>
          /\ retry_count >= 1
          /\ retry_count < max_retries => slept = retry_delay
    /\ fetch_outcome = "exhausted" =>
          /\ page_reqs = max_retries
          /\ stage_state["fetch"] = "failed"
          /\ returned = <<>>
          /\ cache_outcome = "none"
          /\ files = files0

C7_Step ==
    /\ ( /\ pc = "fetching"
         /\ page_reqs' = page_reqs + 1
         /\ last_resp' \in {"timeout", "connection"} ) =>
            /\ url' = url
            /\ subjects' = subjects
            /\ retry_count' = retry_count + 1
            /\ pc' = "fetching"
    /\ (pc = "fetching" /\ pc' = "fetching" /\ url' # url) =>
            (retry_count' = 0 /\ page_reqs' = 0)

\* C7: a timeout or connection error makes fetch_all_subjects request the
\* same page again after the fixed delay; within one call a page is
\* requested at most max_retries times, counted from zero for each page;
\* when a page uses the count up, the call raises, returns no record of the
\* earlier pages, and no snapshot is written.
C7_PerPageRetryBound == [](C7_State) /\ [][C7_Step]_vars

\* The second page timed out max_retries times: the records of the first
\* page are dropped with the call.
C7_Witness ==
    /\ fetch_outcome = "exhausted"
    /\ url = 2
    /\ last_resp = "timeout"
    /\ subjects # <<>>
    /\ page_reqs = max_retries

RECURSIVE AllPages(_)
\* The records of pages 1..n in cursor order.
AllPages(n) == IF n = 0 THEN <<>> ELSE AllPages(n - 1) \o PageData(n)

\* C8: when fetch_all_subjects returns, the list is the concatenation in
\* cursor order of the records of every page, each page exactly once,
\* whatever retryable responses came in between.
C8_ReturnsAllPagesOnce ==
    /\ fetch_outcome = "returned" =>
          /\ returned = AllPages(api_pages)
          /\ \A i, j \in 1..Len(returned) : returned[i] = returned[j] => i = j
    /\ pc = "fetching" => subjects = AllPages(url - 1)

\* A two-page fetch returned after the last page had first failed.
C8_Witness ==
    /\ pc = "caching"
    /\ fetch_outcome = "returned"
    /\ api_pages >= 2
    /\ Len(returned) >= 3
    /\ retry_count >= 1

\* C9: cache_data with an empty list raises a validation error and touches
\* no snapshot file; with a non-empty list it writes the whole list to the
\* snapshot named by the current date, replacing one of that date, and
\* returns that file's path.
C9_CacheDataWritesOrRaises ==
    /\ (fetch_outcome = "returned" /\ pc # "caching") =>
          cache_outcome = (IF returned = <<>> THEN "ValueError" ELSE "written")
    /\ cache_outcome = "ValueError" =>
          /\ returned = <<>>
          /\ files = files0
          /\ cache_path = NoPath
          /\ stage_state["fetch"] = "failed"
    /\ cache_outcome = "written" =>
          /\ returned # <<>>
          /\ cache_path = Now \div TicksPerDay
          /\ files[cache_path].exists
          /\ files[cache_path].content = returned
          /\ \A n \in SnapshotNames \ {cache_path} : files[n] = files0[n]

\* A snapshot of today's date existed and was overwritten.
C9_Witness ==
    /\ cache_outcome = "written"
    /\ files0[Today].exists
    /\ files[Today].content # files0[Today].content

\* A record parse_subject_data can turn into a row.
StructurallyValid(s) ==
    /\ s.shape = "mapping"
    /\ s.object # "none"
    /\ s.data_ok
    /\ s.meanings_ok
    /\ s.object \in {"kanji", "vocabulary"} =>
          \A i \in 1..Len(s.readings) : s.readings[i].has_reading

\* C10: for a non-empty list of N records, M of them structurally valid,
\* parse_subjects returns M rows, one per valid record, and accounts for
\* N - M skipped records.
C10_RowsEqualValidRecords ==
    (p_state \in {"returned", "raised"} /\ p_input # <<>>) =>
        LET valid == SelectSeq(p_input, StructurallyValid)
        IN  /\ p_state = "returned"
            /\ Len(p_rows) = Len(valid)
            /\ \A i \in 1..Len(valid) : p_rows[i].id = valid[i].id
            /\ p_report = <<Len(valid), Len(p_input)>>

\* C11: parse_subjects fails only if the input list is empty: for a
\* non-empty list every per-record failure (a missing field, a missing type
\* tag, a record that is not a mapping) is skipped locally, the remaining
\* records are processed, and the call returns normally.
C11_FailsOnlyIfEmpty ==
    /\ p_state = "raised" => p_input = <<>>
    /\ (p_state = "looping" /\ p_idx > 1) =>
          Len(p_rows) = Len(SelectSeq(SubSeq(p_input, 1, p_idx - 1), StructurallyValid))

RECURSIVE IsSubList(_, _)
\* a can be obtained from b by deleting elements, the order kept.
IsSubList(a, b) ==
    IF a = <<>> THEN TRUE
    ELSE IF b = <<>> THEN FALSE
    ELSE IF Head(a) = Head(b) THEN IsSubList(Tail(a), Tail(b))
    ELSE IsSubList(a, Tail(b))

\* The elements of a list, and how often x occurs in it.
Elems(a) == {a[i] : i \in 1..Len(a)}
Count(x, a) == Cardinality({i \in 1..Len(a) : a[i] = x})

\* The raw record a row was made from (sample records have distinct ids).
SourceOf(row) == CHOOSE s \in SampleSubjects : s.id = row.id

\* Positions of the reading entries of record s that carry type t.
EntriesOfType(s, t) == {i \in 1..Len(s.readings) : s.readings[i].type = t}

\* No reading string of record s is carried by entries of both types.
NoSharedReading(s) ==
    \A i \in EntriesOfType(s, "onyomi"), j \in EntriesOfType(s, "kunyomi") :
        s.readings[i].reading # s.readings[j].reading

\* C12: for every kanji record the onyomi and kunyomi lists of the row are
\* disjoint (no reading is in both) and each is a sub-list of the row's
\* reading list in the original order.
C12_KanjiListsDisjoint ==
    \A k \in 1..Len(p_rows) :
        p_rows[k].object = "kanji" =>
            /\ Elems(p_rows[k].onyomi_readings) \cap Elems(p_rows[k].kunyomi_readings) = {}
            /\ IsSubList(p_rows[k].onyomi_readings, p_rows[k].readings)
            /\ IsSubList(p_rows[k].kunyomi_readings, p_rows[k].readings)

\* C12 as amended: every reading entry of a kanji record gives its reading
\* to exactly one of the two lists or to neither, by its type, never to
\* both; each list is a sub-list of the row's reading list in the original
\* order; and the lists are disjoint when no reading string of the record is
\* carried under both types.
C12_KanjiPartitionByEntry ==
    \A k \in 1..Len(p_rows) :
        LET row == p_rows[k]
            s == SourceOf(row)
        IN  row.object = "kanji" =>
              /\ Len(row.readings) = Len(s.readings)
              /\ IsSubList(row.onyomi_readings, row.readings)
              /\ IsSubList(row.kunyomi_readings, row.readings)
              /\ Len(row.onyomi_readings) = Cardinality(EntriesOfType(s, "onyomi"))
              /\ Len(row.kunyomi_readings) = Cardinality(EntriesOfType(s, "kunyomi"))
              /\ \A x \in Elems(row.readings) :
                    /\ Count(x, row.onyomi_readings) + Count(x, row.kunyomi_readings)
                          <= Count(x, row.readings)
                    /\ Count(x, row.onyomi_readings) =
                          Cardinality({i \in EntriesOfType(s, "onyomi") :
                                          s.readings[i].reading = x})
                    /\ Count(x, row.kunyomi_readings) =
                          Cardinality({i \in EntriesOfType(s, "kunyomi") :
                                          s.readings[i].reading = x})
              /\ NoSharedReading(s) =>
                    Elems(row.onyomi_readings) \cap Elems(row.kunyomi_readings) = {}

\* A kanji row whose record has a reading of each type and one of neither.
C12_Witness ==
    /\ p_state = "returned"
    /\ \E k \in 1..Len(p_rows) :
          /\ p_rows[k].object = "kanji"
          /\ p_rows[k].onyomi_readings # <<>>
          /\ p_rows[k].kunyomi_readings # <<>>
          /\ Len(p_rows[k].readings) >
                Len(p_rows[k].onyomi_readings) + Len(p_rows[k].kunyomi_readings)

\* C13: save_data raises a validation error when the row list is empty or
\* the format is not one of the two supported ones, and then creates or
\* modifies no destination file; with a non-empty list and a supported
\* format it overwrites an existing destination file with exactly the rows
\* given.
C13_SaveValidatesThenOverwrites ==
    save_outcome # "none" =>
        /\ (p_rows = <<>> \/ format \notin {"excel", "parquet"}) <=> save_outcome = "ValueError"
        /\ save_outcome = "ValueError" => dest = dest0
        /\ save_outcome = "written" =>
              /\ dest.exists
              /\ dest.rows = p_rows
              /\ dest.format = format

\* An existing destination file was replaced by the rows of this call.
C13_Witness ==
    /\ save_outcome = "written"
    /\ dest0.exists
    /\ dest.rows # dest0.rows
    /\ Len(dest.rows) >= 2

\* C14: a load invoked with a source file that does not exist raises
\* file-not-found and performs no view drop and no view create: the
\* existing views and the table contents are the same after the failed load
\* as before it.
C14_MissingFileLeavesViews ==
    /\ (~excel.exists /\ load_error \notin {"none", "connect", "drop"}) =>
          load_error = "file_not_found"
    /\ load_error = "file_not_found" =>
          /\ ~excel.exists
          /\ views = views0
          /\ table = table0

\* C15: whenever the load stage ends in failure (at the connection test, a
\* view drop, reading the source file, the table replacement or a view
\* creation) no view exists at the end of the failed stage.
C15_FailedLoadLeavesNoView ==
    (pc = "failed" /\ flow_error = "load") => views = {}

\* C16: after a successful load the table holds exactly the rows of the
\* source file, whatever it held before; the returned row count is the
\* number of rows in the file; all three views exist; and a source file
\* with no data rows makes the load fail without replacing the table.
C16_LoadReplacesTable ==
    /\ stage_state["load"] = "ok" =>
          /\ excel.exists
          /\ table = excel.records
          /\ row_count = Len(excel.records)
          /\ row_count > 0
          /\ views = AllViews
    /\ (excel.exists /\ excel.records = <<>>) =>
          /\ stage_state["load"] # "ok"
          /\ table = table0
          /\ load_error \in {"none", "connect", "drop", "read", "empty"}
    /\ load_error = "empty" => (excel.exists /\ excel.records = <<>>)

\* A load that succeeded on a retry, over a table of an earlier run and
\* with none of the views there at the start.
C16_Witness ==
    /\ stage_state["load"] = "ok"
    /\ attempt >= 2
    /\ table0 = OldContent
    /\ views0 = {}
    /\ Len(table) = 2

\* The keys of a category -> path map, and the path a key is mapped to.
KeysOf(map) == {e[1] : e \in map}
PathOf(map, key) == (CHOOSE e \in map : e[1] = key)[2]

\* C17: when generate_all_decks returns normally the map has exactly the
\* keys radical, kanji, vocabulary and complete, each mapped to the path of
\* an artifact written during this call; the combined artifact bundles
\* exactly the three decks written as the individual artifacts; and the
\* pipeline returns the map unchanged.
C17_MapNamesArtifactsOfThisCall ==
    /\ stage_state["generate"] = "ok" =>
          /\ KeysOf(deck_files) = {"radical", "kanji", "vocabulary", "complete"}
          /\ Cardinality(deck_files) = 4
          /\ \A e \in deck_files :
                /\ e[2] \in AllDeckFiles
                /\ apkg[e[2]].exists
                /\ apkg[e[2]].written_in = attempt
          /\ \A k, l \in KeysOf(deck_files) :
                PathOf(deck_files, k) = PathOf(deck_files, l) => k = l
          /\ \A i \in 1..3 :
                LET own == apkg[PathOf(deck_files, Categories[i])].decks
                IN  /\ Len(own) = 1
                    /\ own[1].category = Categories[i]
                    /\ own[1].built_in = attempt
                    /\ own[1].notes = ViewRows(i, table)
          /\ apkg[PathOf(deck_files, "complete")].decks =
                [i \in 1..3 |-> apkg[PathOf(deck_files, Categories[i])].decks[1]]
    /\ pc = "done" => (stage_state["generate"] = "ok" /\ result = deck_files)

\* The pipeline returned the map of decks built on a second attempt, over
\* artifacts a first attempt had left.
C17_Witness ==
    /\ pc = "done"
    /\ attempt = 2
    /\ result # {}
    /\ Len(table) = 3
    /\ gen_error = "none"

\* C18: if the view query or the row transform of a category fails, nothing
\* is emitted for that category in this call: no artifact of it is written,
\* no later category and no combined bundle is built, and no map is returned.
C18_FailedCategoryEmitsNothing ==
    /\ gen_error \in {"query", "transform"} =>
          /\ g_idx \in 1..3
          /\ stage_state["generate"] # "ok"
          /\ \A i \in g_idx..4 :
                /\ apkg[DeckFile[i]].written_in # attempt
                /\ Categories[i] \notin KeysOf(deck_map)
          /\ Len(decks) <= g_idx - 1
          /\ deck_files = {}
          /\ result = {}
    /\ (pc \in {"task_failed", "failed"} /\ gen_error \in {"query", "transform"}) =>
          Len(decks) = g_idx - 1
    /\ (stage_state["generate"] = "ok") => AllViews \subseteq views

\* The kanji category failed in its row transform after the radical deck
\* of the same call had been written.
C18_Witness ==
    /\ pc = "task_failed"
    /\ gen_error = "transform"
    /\ g_idx = 2
    /\ apkg[DeckFile[1]].written_in = attempt
    /\ ~apkg[DeckFile[2]].exists

\* An item with no surrounding blank and no surrounding pair of quotes.
IsCleanItem(s) ==
    \/ s = <<>>
    \/ /\ Head(s) \notin Whitespace
       /\ s[Len(s)] \notin Whitespace
       /\ ~(Head(s) = "'" /\ s[Len(s)] = "'")

\* The primary reading wrapped in bold once.
Bolded(primary) == <<"<b>">> \o primary \o <<"</b>">>

\* C19: bolding is idempotent: for every reading list and primary reading,
\* bolden_primary_reading applied to its own output with the same primary
\* reading returns that output unchanged.
C19_BoldingIdempotent ==
    txt_pc = "bold_twice" => txt_b = txt_a

\* C19 as amended: applied to its own output, the bolding never wraps an
\* already-bolded primary reading a second time and keeps length and order;
\* it returns the output unchanged whenever no item of the output carries a
\* surrounding blank or a further surrounding pair of quotes.
C19_NoDoubleWrap ==
    txt_pc = "bold_twice" =>
        /\ Len(txt_a) = Len(txt_in)
        /\ Len(txt_b) = Len(txt_a)
        /\ \A i \in 1..Len(txt_a) :
              /\ txt_a[i] = Bolded(txt_primary) => txt_b[i] = txt_a[i]
              /\ txt_b[i] # Bolded(Bolded(txt_primary))
              /\ (Len(txt_b[i]) >= 2 => SubSeq(txt_b[i], 1, 2) # <<"<b>", "<b>">>)
              /\ IsCleanItem(txt_a[i]) => txt_b[i] = txt_a[i]
        /\ (\A i \in 1..Len(txt_a) : IsCleanItem(txt_a[i])) => txt_b = txt_a

\* A quoted primary reading was bolded by the first application and left
\* as it was by the second.
C19_Witness ==
    /\ txt_pc = "bold_twice"
    /\ txt_in = << <<"'", "a", "'">> >>
    /\ txt_primary = <<"a">>
    /\ txt_a = << <<"<b>", "a", "</b>">> >>
    /\ txt_b = txt_a

\* No item of the list holds a character the view logic treats as a
\* delimiter: the comma it splits on, the brackets it trims.
NoDelimiterInside(items) ==
    \A i \in 1..Len(items) :
        \A j \in 1..Len(items[i]) : items[i][j] \notin {",", "[", "]"}

\* C20: for every list of strings without embedded delimiter characters,
\* encoding the list to its store form, decoding it with the view logic and
\* cleaning the items yields the original list: same length, same order,
\* same items, the empty list included.
C20_ListRoundTrip ==
    (txt_pc = "rt_cleaned" /\ NoDelimiterInside(txt_in)) => txt_c = txt_in

\* C21: an unexpected error raised inside a stage, inside view management
\* or inside the cache check is re-raised to the caller, never swallowed:
\* once the cache check has met an error, the task does not return a value
\* and the flow does not go on to the next step.
C21_UnexpectedErrorReraised ==
    check_error # "none" =>
        /\ stage_state["check"] # "ok"
        /\ pc \in {"check_except", "task_failed", "failed"}
        /\ stage_state["fetch"] = "idle"

C22_State ==
    /\ pc = "load_excel" => views = {}
    /\ pc = "load_create" =>
          /\ table = excel.records
          /\ views = {ViewNames[i] : i \in 1..(view_idx - 1)}
    /\ stage_state["load"] = "ok" => views = AllViews

C22_Step ==
    /\ pc = "load_excel" => (views = {} /\ views' = {})
    /\ views' \ views # {} =>
          /\ pc = "load_create"
          /\ table = excel.records
          /\ table' = table
    /\ (pc # "load_excel") => table' = table

\* C22: in the load stage all three views are dropped before the table
\* replacement starts and no view is created before it has completed: no
\* view exists in a state in which the table is being replaced, views are
\* created only over the replaced table, and a successful load ends with
\* all three views existing.
C22_ViewsAbsentDuringReplace == [](C22_State) /\ [][C22_Step]_vars

\* A load succeeded on a database where all three views existed over an
\* older table.
C22_Witness ==
    /\ stage_state["load"] = "ok"
    /\ views0 = AllViews
    /\ table0 = OldContent
    /\ table # table0
    /\ attempt = 1

C23_State ==
    /\ page_reqs <= max_retries
    /\ (pc = "fetching" /\ last_resp = "429") =>
          /\ slept = retry_delay * 2
          /\ retry_count >= 1
          /\ page_reqs = retry_count
    /\ (fetch_outcome = "exhausted" /\ last_resp = "429") =>
          /\ page_reqs = max_retries
          /\ stage_state["fetch"] = "failed"
          /\ returned = <<>>

C23_Step ==
    ( /\ pc = "fetching"
      /\ page_reqs' = page_reqs + 1
      /\ last_resp' = "429" ) =>
         /\ url' = url
         /\ subjects' = subjects
         /\ retry_count' = retry_count + 1
         /\ slept' = retry_delay * 2
         /\ pc' = "fetching"

\* C23: on a 429 answer fetch_all_subjects waits twice the retry delay and
\* requests the same page again, the cursor not advanced and no record
\* added; 429 answers count against the same per-page bound as the other
\* failures, so a page that keeps answering 429 is requested at most
\* max_retries times before the fetch fails.
C23_RateLimitRetriesSamePage == [](C23_State) /\ [][C23_Step]_vars

\* The second page answered 429 after a timeout and again until the count
\* was used up.
C23_Witness ==
    /\ fetch_outcome = "exhausted"
    /\ last_resp = "429"
    /\ url = 2
    /\ page_reqs = max_retries
    /\ subjects # <<>>

FetchEnded == f_pc \in {"f_returned", "f_raised"}

C24_State ==
    /\ f_requests <= api_pages * f_max_retries
    /\ (f_max_retries = 0 /\ f_pc # "f_called") =>
          /\ f_requests = 0
          /\ f_pc \in {"f_outer", "f_inner", "f_raised"}
    /\ (f_max_retries = 0 /\ FetchEnded) => f_pc = "f_raised"
    /\ f_pc = "f_returned" =>
          /\ f_url = NoUrl
          /\ f_subjects = AllPages(api_pages)
          /\ f_requests >= api_pages

C24_Step ==
    /\ (f_pc # "f_called" /\ f_url = NoUrl) => f_requests' = f_requests
    /\ FetchEnded => UNCHANGED fetchCall

\* C24: fetch_all_subjects always terminates, by returning or by raising,
\* for a finite chain of next-page cursors: it issues no request once a
\* successful page carried no next cursor, for a chain of P pages it issues
\* at most P times max_retries requests under any sequence of responses,
\* and with max_retries = 0 it raises without issuing any request.
C24_FetchTerminates == [](C24_State) /\ [][C24_Step]_vars /\ <>FetchEnded

\* A two-page fetch returned after using every request its bound allows.
C24_Witness ==
    /\ f_pc = "f_returned"
    /\ api_pages = 2
    /\ f_max_retries = 3
    /\ f_requests = api_pages * f_max_retries

KnownTags == {"radical", "kanji", "vocabulary"}

\* C25: a record whose type tag is none of radical, kanji and vocabulary
\* gives a row with only the common fields: no type-specific field is
\* added, the onyomi and kunyomi lists are empty and the primary reading is
\* none; and every row carries one type tag, the tag of its raw record.
C25_UnknownTagCommonFieldsOnly ==
    /\ \A k \in 1..Len(p_rows) :
          LET row == p_rows[k]
              s == SourceOf(row)
          IN  /\ row.object = s.object
              /\ row.object # "none"
              /\ row.object \notin KnownTags =>
                    /\ row.type_fields = {}
                    /\ row.readings = <<>>
                    /\ row.onyomi_readings = <<>>
                    /\ row.kunyomi_readings = <<>>
                    /\ row.primary_reading = "None"
    /\ p_state = "returned" =>
          \A i \in 1..Len(p_input) :
              (StructurallyValid(p_input[i]) /\ p_input[i].object \notin KnownTags) =>
                  \E k \in 1..Len(p_rows) : p_rows[k].id = p_input[i].id

\* A record with an unrecognized tag whose raw data carries readings, one
\* of them marked primary, was turned into a row.
C25_Witness ==
    /\ p_state = "returned"
    /\ \E k \in 1..Len(p_rows) :
          /\ p_rows[k].object = "kana_vocabulary"
          /\ SourceOf(p_rows[k]).readings # <<>>
    /\ Len(p_rows) >= 2

\* Positions of the reading entries of record s that are marked primary.
MarkedPrimary(s) == {i \in 1..Len(s.readings) : s.readings[i].primary}

Least(S) == CHOOSE i \in S : \A j \in S : i <= j

\* C26: the primary reading of a kanji row is the first reading, in list
\* order, that is marked primary, and none when no reading is marked; the
\* primary reading of every other row is none, whatever is marked.
C26_PrimaryIsFirstMarked ==
    \A k \in 1..Len(p_rows) :
        LET row == p_rows[k]
            s == SourceOf(row)
        IN  IF row.object = "kanji"
            THEN IF MarkedPrimary(s) = {}
                 THEN row.primary_reading = "None"
                 ELSE row.primary_reading = s.readings[Least(MarkedPrimary(s))].reading
            ELSE row.primary_reading = "None"

\* A kanji whose first reading is not marked and whose second and third
\* are, next to a vocabulary row with a marked reading and a kanji row with
\* none marked.
C26_Witness ==
    /\ p_state = "returned"
    /\ \E k \in 1..Len(p_rows) :
          /\ p_rows[k].object = "kanji"
          /\ Cardinality(MarkedPrimary(SourceOf(p_rows[k]))) = 2
          /\ p_rows[k].primary_reading = "kou"
    /\ \E k \in 1..Len(p_rows) :
          /\ p_rows[k].object = "vocabulary"
          /\ MarkedPrimary(SourceOf(p_rows[k])) # {}
    /\ \E k \in 1..Len(p_rows) :
          /\ p_rows[k].object = "kanji"
          /\ MarkedPrimary(SourceOf(p_rows[k])) = {}

\* The value of an item after cleanup: the part between its first and its
\* last character that is no blank, without its first and last character
\* when these are single quotes.
CleanedValue(item) ==
    LET solid == {i \in 1..Len(item) : item[i] \notin Whitespace}
        lo == CHOOSE i \in solid : \A j \in solid : i <= j
        hi == CHOOSE i \in solid : \A j \in solid : j <= i
        t == IF solid = {} THEN <<>> ELSE [k \in 1..(hi - lo + 1) |-> item[lo + k - 1]]
    IN  IF t # <<>> /\ t[1] = "'" /\ t[Len(t)] = "'"
        THEN [k \in 1..(IF Len(t) >= 2 THEN Len(t) - 2 ELSE 0) |-> t[k + 1]]
        ELSE t

\* C27: the rendered list has the length and order of the input list; an
\* element is wrapped in bold exactly when its cleaned value equals the
\* primary reading, every other element is rendered as its cleaned value,
\* and with no primary reading no element is bolded.
C27_BoldExactlyThePrimary ==
    txt_pc \in {"bold_once", "bold_twice"} =>
        /\ Len(txt_a) = Len(txt_in)
        /\ \A i \in 1..Len(txt_in) :
              LET c == CleanedValue(txt_in[i])
              IN  /\ (txt_a[i] = Bolded(c)) <=> (c = txt_primary)
                  /\ c # txt_primary => txt_a[i] = c
                  /\ txt_primary = NoPrimary => txt_a[i] = c

\* Of two readings the second is the primary one and is bolded; the first
\* is rendered cleaned, not as it was stored.
C27_Witness ==
    /\ txt_pc = "bold_once"
    /\ Len(txt_in) = 2
    /\ txt_a[2] = Bolded(txt_primary)
    /\ txt_a[1] # Bolded(txt_primary)
    /\ txt_a[1] # txt_in[1]

\* C28: the load stage can be rerun from any database state: from any
\* subset of the views and any table, a load of a valid source file whose
\* database operations succeed ends with the table equal to the file and
\* all three views existing, and a second load in a row ends in the state
\* the first one did.
C28_LoadRerunnable ==
    /\ stage_state["load"] = "ok" =>
          /\ table = excel.records
          /\ views = AllViews
          /\ excel.exists /\ excel.records # <<>>
    /\ (stage_state["load"] = "ok" /\ calls["load"] >= 2
        /\ views0 = AllViews /\ table0 = excel.records) =>
          (table = table0 /\ views = views0)
    /\ (pc = "load_create" /\ view_idx = Len(ViewNames) + 1) => stage_state["load"] = "ok"

\* A second load succeeded on the state a complete first load had left.
C28_Witness ==
    /\ stage_state["load"] = "ok"
    /\ calls["load"] = 2
    /\ attempt = 1
    /\ views0 = AllViews
    /\ table0 = excel.records
    /\ Len(table) = 2

\* C29: in every run that executes the fetch stage and completes the load,
\* the rows in the table are those of the records fetched in that run, and
\* the tabular file handed to the load stage was produced from the snapshot
\* of that run, also when the transform task holds a result for the same
\* snapshot path from an earlier run.
C29_LoadedRowsAreThisRunsFetch ==
    /\ (stage_state["fetch"] = "ok" /\ stage_state["transform"] = "ok") =>
          /\ excel.source = cache_path
          /\ excel.records = files[cache_path].content
          /\ excel.records = returned
    /\ (stage_state["fetch"] = "ok" /\ stage_state["load"] = "ok") =>
          table = returned

\* C30: artifacts are handed between stages by a path that names the file
\* actually written, whatever the working directory: the tabular path the
\* transform stage returns is the file save_data wrote in that stage (so
\* the load stage reads the rows of this run's snapshot), and a snapshot
\* written by cache_data in an earlier run lies in the directory the cache
\* check of the next run searches.
C30_HandedPathsNameWrittenFiles ==
    /\ path_pc \in {"p_load", "p_done", "p_failed"} =>
          excel_handed = excel_written
    /\ path_pc \in {"p_done", "p_failed"} => load_read = disk[json_handed]
    /\ (path_pc = "p_fetch" /\ json_written # NoDataPath) =>
          json_written[1] = check_dir

====
